---- MODULE Spec2Model ----
(***************************************************************************)
(* Verification model of the numerical core of probability.js:             *)
(*   - the density sampler  (Math.p.buildDF / generatePDF / generateCDF),  *)
(*   - the series engine    (Math.h.sum: inf_sum / fin_sum),               *)
(*   - the derivative refinement loop (Math.h.derivative),                 *)
(*   - the moment extractor (Math.p.moments),                              *)
(*   - factorial, choose and the functions that call choose,               *)
(*   - the pseudo random number generator (Math.h.random),                 *)
(*   - the error function (Math.h.erf),                                    *)
(*   - the calls of the distributions' pdf and cdf and of the sample mean  *)
(*     and variance (Math.p.distribution, Math.p.mean, Math.p.variance),   *)
(*   - the finite-difference stencil of Math.h.derivative.                 *)
(*                                                                         *)
(* Numbers.  JavaScript numbers are modelled as tagged records so that NaN *)
(* and the infinities keep their own comparison and arithmetic rules:      *)
(*   [k |-> "num", n |-> <integer>]   a finite number                      *)
(*   [k |-> "nan", n |-> 0]           NaN (also the value undefined where  *)
(*                                    it is only used arithmetically)      *)
(*   [k |-> "inf", n |-> 1 / -1]      +Infinity / -Infinity                *)
(* In the density sampler all abscissae are counted in ticks of 0.01       *)
(* (Tick ticks make 1.0) and all densities in units of 1E-5, so that       *)
(* sqrt(variance)/100, Math.floor and the epsilon test are exact.          *)
(***************************************************************************)
EXTENDS Integers, Sequences, FiniteSets, TLC

VARIABLES
    \* ---- density sampler (probability.js buildDF/generatePDF/generateCDF)
    discrete,   \* Math.p.distribution[distrType].discrete
    pdfShape,   \* the pdf(params) closure, as a shape record
    bnds,       \* Math.p.distribution[distrType].bounds(params)
    moments,    \* the MomentSet argument [mean, variance]
    pc,         \* position inside buildDF
    inc,        \* buildDF's local inc (ticks)
    gInc,       \* generatePDF's argument inc (ticks, signed)
    start,      \* generatePDF's local start (ticks)
    i,          \* generatePDF's local i (ticks)
    v,          \* generatePDF's local v (count of NaN / non-positive values)
    pdf,        \* generatePDF's local pdf array
    steps,      \* number of loop iterations made by the current walk
    pdfNeg,     \* value returned by generatePDF(..., -inc)
    distr,      \* buildDF's result object [pdf, cdf]
    \* ---- series engine (helpers.js sum)
    sf,         \* the term function f, as a shape record
    sa,         \* argument a
    sb,         \* argument b
    stol,       \* argument tol (possibly undefined)
    smax,       \* argument max (possibly undefined)
    si,         \* local i
    s1,         \* local s1
    spc,        \* position inside sum
    siters,     \* loop iterations made
    sevals,     \* sequence of the indices at which f was evaluated
    sres,       \* returned value
    \* ---- derivative refinement (helpers.js derivative)
    di,         \* local i
    dv,         \* local array v (dv[j+1] is v[j])
    dd,         \* local array d (dd[j+1] is d[j]; d[0] is a hole)
    dpc,        \* position inside derivative
    devals,     \* stencil evaluations made
    dres,       \* returned value
    \* ---- moment extractor (probability.js moments)
    mf,         \* the mgf argument f, as its derivatives of order 1..4 at 0
    mmean,      \* value returned by moments.mean(f)
    mvar,       \* value returned by moments.variance(f)
    mskew,      \* value returned by moments.skewness(f)
    mkurt,      \* value returned by moments.kurtosis(f)
    \* ---- factorial, choose and the callers of choose (helpers.js,
    \*      probability.js)
    cn,         \* the argument n (the order o of the derivative stencil)
    ck,         \* the argument k (the index i of the derivative stencil)
    cfact,      \* value returned by Math.h.factorial(n)
    cchoose,    \* value returned by Math.h.choose(n, k)
    ctri,       \* value returned by Math.h.triangular(n)
    cbin,       \* value returned by distribution.binomial.pdf({n, p})(k)
    csten,      \* a term of the sum in derivative's stencil f1
    cirw,       \* a term of the sum in distribution.irwinhall.pdf({n})(x)
    \* ---- pseudo random numbers (helpers.js random)
    clock,      \* the value +new Date() would have now (its low 32 bits)
    rticks,     \* milliseconds elapsed since the start
    rcalls,     \* the calls of Math.h.random() made so far: seed and result
    \* ---- error function (helpers.js erf)
    ex,         \* the argument x
    eerf,       \* value returned by Math.h.erf(x)
    eneg,       \* value returned by Math.h.erf(-x)
    \* ---- calls of the library's routines (probability.js)
    qfn,        \* the routine called: pdf, cdf, mean or variance
    qd,         \* the distribution whose pdf or cdf is called
    qx,         \* the argument x of the pdf or cdf
    qsample,    \* the argument array of mean or variance
    qout,       \* what the call did: the value returned or the error thrown
    qint,       \* the distribution whose pdf the cdf integrated, if any
    \* ---- finite-difference stencil (helpers.js derivative, f1)
    tf,         \* the function f, a polynomial given by its coefficients
    torder,     \* the order o
    tx,         \* the abscissa x
    th,         \* the step h
    tres        \* value returned by f1(x, h)

dfVars == <<discrete, pdfShape, bnds, moments, pc, inc, gInc, start, i, v, pdf, steps, pdfNeg, distr>>
sumVars == <<sf, sa, sb, stol, smax, si, s1, spc, siters, sevals, sres>>
derVars == <<di, dv, dd, dpc, devals, dres>>
momVars == <<mf, mmean, mvar, mskew, mkurt>>
combVars == <<cn, ck, cfact, cchoose, ctri, cbin, csten, cirw>>
rndVars == <<clock, rticks, rcalls>>
erfVars == <<ex, eerf, eneg>>
callVars == <<qfn, qd, qx, qsample, qout, qint>>
stenVars == <<tf, torder, tx, th, tres>>
libVars == <<erfVars, callVars, stenVars>>
extVars == <<momVars, combVars, rndVars, libVars>>
vars == <<dfVars, sumVars, derVars, extVars>>

----------------------------------------------------------------------------
(* JavaScript number semantics *)

XNum(n) == [k |-> "num", n |-> n]
XNaN == [k |-> "nan", n |-> 0]
XPInf == [k |-> "inf", n |-> 1]
XNInf == [k |-> "inf", n |-> -1]
\* the value undefined, where the code tells it from a number by typeof
XUndef == [k |-> "undef", n |-> 0]

Abs(n) == IF n < 0 THEN -n ELSE n

\* isNaN(x): undefined converts to NaN
IsNaN(x) == x.k \in {"nan", "undef"}

\* x < y on JavaScript numbers: false as soon as one side is NaN
XLt(x, y) ==
    /\ ~IsNaN(x)
    /\ ~IsNaN(y)
    /\ IF x.k = "num" /\ y.k = "num" THEN x.n < y.n
       ELSE IF x.k = "inf" /\ y.k = "inf" THEN x.n < y.n
       ELSE IF x.k = "inf" THEN x.n < 0
       ELSE y.n > 0

\* x <= y on JavaScript numbers
XLe(x, y) ==
    /\ ~IsNaN(x)
    /\ ~IsNaN(y)
    /\ IF x.k = "num" /\ y.k = "num" THEN x.n <= y.n
       ELSE IF x.k = "inf" /\ y.k = "inf" THEN x.n <= y.n
       ELSE IF x.k = "inf" THEN x.n < 0
       ELSE y.n > 0

\* x + y on JavaScript numbers
XAdd(x, y) ==
    IF IsNaN(x) \/ IsNaN(y) THEN XNaN
    ELSE IF x.k = "num" /\ y.k = "num" THEN XNum(x.n + y.n)
    ELSE IF x.k = "inf" /\ y.k = "inf" THEN (IF x.n = y.n THEN x ELSE XNaN)
    ELSE IF x.k = "inf" THEN x
    ELSE y

\* -x
XNeg(x) == IF IsNaN(x) THEN XNaN ELSE [k |-> x.k, n |-> -x.n]

\* x - y
XSub(x, y) == XAdd(x, XNeg(y))

\* Math.abs(x)
XAbs(x) == IF IsNaN(x) THEN XNaN ELSE [k |-> x.k, n |-> Abs(x.n)]

----------------------------------------------------------------------------
(* Bounds of the model *)

\* ticks per unit of x: one tick is the fallback step 0.01
Tick == 100
\* stands for the literal 99999 of the loop condition `i < 99999', in units of x
WalkCap == 12
\* iterations of one walk after which the model stops following it
MaxSteps == 16

\* stands for the default 1E6 of sum's argument max
DefaultMax == 3
\* loop iterations of inf_sum after which the model stops following it
MaxIter == 8
\* stands for the literal 99999 of derivative's loop condition `i <= 99999'
DerivCap == 4

\* the literal 99999 of the guards on inc and on the mean, in units of x
Huge == 99999
\* the literal 10 in `v > 10'
BadLimit == 10
\* the literal 1E-5, in density units
Epsilon == 1
\* the default 1E-12 of sum's argument tol; terms are counted in units of 1E-12
DefaultTol == 1

----------------------------------------------------------------------------
(* Density sampler: helpers *)

\* inBounds with the open upper end compared by <= instead of <
inBoundsUpperIncluded(value, bounds) ==
    IF bounds.lower.closed
      THEN XLe(bounds.lower.value, value) /\ XLe(value, bounds.upper.value)
      ELSE XLt(bounds.lower.value, value) /\ XLe(value, bounds.upper.value)

\* Math.h.inBounds(value, bounds)
inBounds(value, bounds) ==
    IF bounds.lower.closed /\ bounds.upper.closed
      THEN XLe(bounds.lower.value, value) /\ XLe(value, bounds.upper.value)
    ELSE IF bounds.lower.closed /\ ~bounds.upper.closed
      THEN XLe(bounds.lower.value, value) /\ XLt(value, bounds.upper.value)
    ELSE IF ~bounds.lower.closed /\ bounds.upper.closed
      THEN XLt(bounds.lower.value, value) /\ XLe(value, bounds.upper.value)
    ELSE XLt(bounds.lower.value, value) /\ XLt(value, bounds.upper.value)

\* Math.p.distribution[distrType].pdf(params)(x): the value `core' within
\* radius r of centre c and the value `tail' everywhere else
PdfAt(shape, x) == IF Abs(x - shape.c) <= shape.r THEN shape.core ELSE shape.tail

\* Math.sqrt(n) for the perfect squares the model feeds it
ISqrt(n) == CHOOSE r \in 0..n : r * r <= n /\ n < (r + 1) * (r + 1)

\* Math.sqrt(moments.variance) / 100, in ticks
SqrtVarianceOver100(variance) ==
    IF variance.k = "nan" THEN XNaN
    ELSE IF variance.k = "inf" THEN (IF variance.n > 0 THEN XPInf ELSE XNaN)
    ELSE IF variance.n < 0 THEN XNaN
    ELSE XNum((ISqrt(variance.n) * Tick) \div 100)

\* buildDF's inc, in ticks: 1 for a discrete distribution, else
\* sqrt(variance)/100, replaced by 0.01 when NaN or above 99999 in magnitude
BuildInc(isDiscrete, variance) ==
    LET raw == IF isDiscrete THEN XNum(Tick) ELSE SqrtVarianceOver100(variance)
    IN  IF IsNaN(raw) \/ XLt(XNum(Huge * Tick), XAbs(raw)) THEN 1 ELSE raw.n

\* Math.floor on a number counted in ticks
XFloor(x) == IF x.k = "num" THEN XNum(x.n - (x.n % Tick)) ELSE x

\* generatePDF's start
GenStart(isDiscrete, mean, incArg) ==
    LET s0 == IF incArg < 0 THEN XSub(mean, XNum(incArg)) ELSE mean
        s1f == IF isDiscrete THEN XFloor(s0) ELSE s0
    IN  IF IsNaN(mean) \/ XLt(XNum(Huge * Tick), XAbs(mean)) THEN 0 ELSE s1f.n

\* 10 * moments.variance, in ticks
TenVariance(variance) ==
    IF variance.k = "num" THEN XNum(10 * variance.n * Tick) ELSE variance

\* the condition of generatePDF's while loop
WalkLoopCond(st, idx, variance) ==
    \/ XLe(XNum(Abs(st - idx)), TenVariance(variance))
    \/ idx < WalkCap * Tick

\* value counts as bad: isNaN(value) || value <= 0
BadValue(value) == IsNaN(value) \/ XLe(value, XNum(0))

\* an i / inc that is never NaN
IsNaNQuotNever(idx, incArg) == FALSE

\* isNaN(i / inc): only 0 / 0 is NaN
IsNaNQuot(idx, incArg) == idx = 0 /\ incArg = 0

\* a break test that also leaves the loop on a NaN value
WalkBreakOnNaN(bad, idx, incArg, value) ==
    \/ bad > BadLimit
    \/ IsNaNQuot(idx, incArg)
    \/ IsNaN(value)
    \/ (XLe(XNum(0), value) /\ XLe(value, XNum(Epsilon)))

\* the break test of generatePDF's loop
WalkBreak(bad, idx, incArg, value) ==
    \/ bad > BadLimit
    \/ IsNaNQuot(idx, incArg)
    \/ (~IsNaN(value) /\ XLe(XNum(0), value) /\ XLe(value, XNum(Epsilon)))

\* a push that does not look at the bounds
WalkPushAnywhere(x, bounds, value) == ~IsNaN(value)

\* the test that guards pdf.push
WalkPush(x, bounds, value) == inBounds(XNum(x), bounds) /\ ~IsNaN(value)

\* insertion of one point into an array sorted by the comparator of buildDF,
\* after every point that does not compare greater (a stable sort)
RECURSIVE InsertByX(_, _)
InsertByX(sorted, p) ==
    IF sorted = <<>> THEN <<p>>
    ELSE IF p.x < Head(sorted).x THEN <<p>> \o sorted
    ELSE <<Head(sorted)>> \o InsertByX(Tail(sorted), p)

\* distr.pdf.sort(comparator on x)
RECURSIVE SortByX(_)
SortByX(arr) ==
    IF arr = <<>> THEN <<>>
    ELSE InsertByX(SortByX(SubSeq(arr, 1, Len(arr) - 1)), arr[Len(arr)])

\* the running sum of generateCDF after the first n points
RECURSIVE RunningSum(_, _)
RunningSum(arr, n) == IF n = 0 THEN 0 ELSE RunningSum(arr, n - 1) + arr[n].y

\* Math.p.generateCDF(pdf, inc)
generateCDF(arr, incArg) ==
    [n \in 1..Len(arr) |-> [x |-> arr[n].x, y |-> RunningSum(arr, n) * incArg]]

----------------------------------------------------------------------------
(* Density sampler: inputs *)

PdfValues == {XNaN, XNum(-2), XNum(0), XNum(1), XNum(3)}
PdfShapes == [c : {0, 200}, r : {0, 150}, core : PdfValues, tail : PdfValues]
LowerEnds == {[value |-> XNInf, closed |-> FALSE],
              [value |-> XNum(0), closed |-> TRUE],
              [value |-> XNum(0), closed |-> FALSE]}
UpperEnds == {[value |-> XPInf, closed |-> TRUE],
              [value |-> XNum(200), closed |-> TRUE],
              [value |-> XNum(200), closed |-> FALSE]}
BoundsSet == [lower : LowerEnds, upper : UpperEnds]
Means == {XNaN, XNum(0), XNum(150), XNum((Huge + 1) * Tick)}
Variances == {XNaN, XNum(-1), XNum(0), XNum(1), XPInf}

NoResult == [pdf |-> <<>>, cdf |-> <<>>]

SumIdle ==
    /\ sf = [head |-> <<>>, tail |-> XNum(0)]
    /\ sa = XNum(0) /\ sb = XNum(0)
    /\ stol = XNaN /\ smax = XNaN
    /\ si = XNum(0) /\ s1 = XNum(0)
    /\ spc = "idle" /\ siters = 0 /\ sevals = <<>>
    /\ sres = [undef |-> TRUE, val |-> XNaN]

DerIdle ==
    /\ di = 0 /\ dv = <<>> /\ dd = <<>>
    /\ dpc = "idle" /\ devals = 0
    /\ dres = [undef |-> TRUE, val |-> XNaN]

DFIdle ==
    /\ discrete = FALSE
    /\ pdfShape = [c |-> 0, r |-> 0, core |-> XNaN, tail |-> XNaN]
    /\ bnds = [lower |-> [value |-> XNInf, closed |-> FALSE],
               upper |-> [value |-> XPInf, closed |-> FALSE]]
    /\ moments = [mean |-> XNaN, variance |-> XNaN]
    /\ pc = "idle" /\ inc = 0 /\ gInc = 0 /\ start = 0 /\ i = 0 /\ v = 0
    /\ pdf = <<>> /\ steps = 0 /\ pdfNeg = <<>> /\ distr = NoResult

\* a function of the moment extractor that has not been called
NotCalled == [called |-> FALSE, val |-> [k |-> "nan", n |-> 0, d |-> 1]]

MomIdle ==
    /\ mf = <<>>
    /\ mmean = NotCalled /\ mvar = NotCalled
    /\ mskew = NotCalled /\ mkurt = NotCalled

CombIdle ==
    /\ cn = NotCalled.val /\ ck = NotCalled.val
    /\ cfact = NotCalled /\ cchoose = NotCalled /\ ctri = NotCalled
    /\ cbin = NotCalled /\ csten = NotCalled /\ cirw = NotCalled

RndIdle ==
    /\ clock = [hi |-> 0, lo |-> 0, big |-> FALSE]
    /\ rticks = 0 /\ rcalls = <<>>

ErfIdle == ex = NotCalled.val /\ eerf = NotCalled /\ eneg = NotCalled

CallsIdle ==
    /\ qfn = "none" /\ qd = "none" /\ qx = NotCalled.val /\ qsample = <<>>
    /\ qout = [called |-> FALSE, threw |-> "none", val |-> NotCalled.val]
    /\ qint = "none"

StencilIdle ==
    /\ tf = <<>> /\ torder = 0 /\ tx = NotCalled.val /\ th = NotCalled.val
    /\ tres = NotCalled

LibIdle == ErfIdle /\ CallsIdle /\ StencilIdle

ExtIdle == MomIdle /\ CombIdle /\ RndIdle /\ LibIdle

----------------------------------------------------------------------------
(* Density sampler: buildDF *)

InitDF ==
    /\ discrete \in BOOLEAN
    /\ pdfShape \in PdfShapes
    /\ bnds \in BoundsSet
    /\ moments \in [mean : Means, variance : Variances]
    /\ pc = "entry"
    /\ inc = 0 /\ gInc = 0 /\ start = 0 /\ i = 0 /\ v = 0
    /\ pdf = <<>> /\ steps = 0 /\ pdfNeg = <<>> /\ distr = NoResult
    /\ SumIdle /\ DerIdle /\ ExtIdle

\* buildDF up to the first call generatePDF(distrType, params, moments, -inc),
\* and that call up to its loop
BuildDFEnter ==
    /\ pc = "entry"
    /\ inc' = BuildInc(discrete, moments.variance)
    /\ gInc' = -inc'
    /\ start' = GenStart(discrete, moments.mean, gInc')
    /\ i' = 0 /\ v' = 0 /\ pdf' = <<>> /\ steps' = 0
    /\ pc' = "walkNeg"
    /\ UNCHANGED <<discrete, pdfShape, bnds, moments, pdfNeg, distr>>
    /\ UNCHANGED <<sumVars, derVars, extVars>>

\* one iteration of generatePDF's while loop
WalkIter ==
    /\ pc \in {"walkNeg", "walkPos"}
    /\ WalkLoopCond(start, i, moments.variance)
    /\ steps < MaxSteps
    /\ LET x == start - i
           value == PdfAt(pdfShape, x)
           bad == IF BadValue(value) THEN v + 1 ELSE v
       IN  /\ v' = bad
           /\ steps' = steps + 1
           /\ IF WalkBreak(bad, i, gInc, value)
                THEN /\ pc' = (IF pc = "walkNeg" THEN "retNeg" ELSE "retPos")
                     /\ UNCHANGED <<pdf, i>>
                ELSE /\ pdf' = (IF WalkPush(x, bnds, value)
                                  THEN Append(pdf, [x |-> x, y |-> value.n])
                                  ELSE pdf)
                     /\ i' = i + gInc
                     /\ pc' = pc
    /\ UNCHANGED <<discrete, pdfShape, bnds, moments, inc, gInc, start, pdfNeg, distr>>
    /\ UNCHANGED <<sumVars, derVars, extVars>>

\* generatePDF's loop condition fails
WalkExit ==
    /\ pc \in {"walkNeg", "walkPos"}
    /\ ~WalkLoopCond(start, i, moments.variance)
    /\ pc' = (IF pc = "walkNeg" THEN "retNeg" ELSE "retPos")
    /\ UNCHANGED <<discrete, pdfShape, bnds, moments, inc, gInc, start, i, v, pdf, steps, pdfNeg, distr>>
    /\ UNCHANGED <<sumVars, derVars, extVars>>

\* generatePDF(..., -inc) returns; generatePDF(..., inc) is entered
ReturnNeg ==
    /\ pc = "retNeg"
    /\ pdfNeg' = pdf
    /\ gInc' = inc
    /\ start' = GenStart(discrete, moments.mean, gInc')
    /\ i' = 0 /\ v' = 0 /\ pdf' = <<>> /\ steps' = 0
    /\ pc' = "walkPos"
    /\ UNCHANGED <<discrete, pdfShape, bnds, moments, inc, distr>>
    /\ UNCHANGED <<sumVars, derVars, extVars>>

\* generatePDF(..., inc) returns; concat, sort, generateCDF, return distr
ReturnPos ==
    /\ pc = "retPos"
    /\ LET sorted == SortByX(pdfNeg \o pdf)
       IN  distr' = [pdf |-> sorted, cdf |-> generateCDF(sorted, inc)]
    /\ pc' = "done"
    /\ UNCHANGED <<discrete, pdfShape, bnds, moments, inc, gInc, start, i, v, pdf, steps, pdfNeg>>
    /\ UNCHANGED <<sumVars, derVars, extVars>>

NextDF == BuildDFEnter \/ WalkIter \/ WalkExit \/ ReturnNeg \/ ReturnPos

SpecDF == InitDF /\ [][NextDF]_vars

----------------------------------------------------------------------------
(* Density sampler: properties *)

StrictlyIncreasingX(arr) == \A n \in 1..(Len(arr) - 1) : arr[n].x < arr[n + 1].x

\* x lies inside the declared interval, each end included exactly when closed
WithinDeclared(x, b) ==
    /\ IF b.lower.value.k = "inf" THEN b.lower.value.n < 0
       ELSE IF b.lower.closed THEN b.lower.value.n <= x ELSE b.lower.value.n < x
    /\ IF b.upper.value.k = "inf" THEN b.upper.value.n > 0
       ELSE IF b.upper.closed THEN x <= b.upper.value.n ELSE x < b.upper.value.n

\* C1 (as claimed): the pdf sample returned by buildDF is strictly increasing
\* in x, whatever the mean (a number, undefined, or above 99999 in magnitude).
C1_StrictlyIncreasing == pc = "done" => StrictlyIncreasingX(distr.pdf)

\* C2 (as claimed): every point of the returned pdf sample has y > 0.
C2_PositiveDensity == pc = "done" => \A n \in 1..Len(distr.pdf) : distr.pdf[n].y > 0

\* C3: every point of the returned pdf sample has x inside bounds(params),
\* each end of the interval being included exactly when its closed flag is set.
C3_WithinBounds ==
    pc = "done" => \A n \in 1..Len(distr.pdf) : WithinDeclared(distr.pdf[n].x, bnds)

\* a finished buildDF whose sample holds a point on the closed upper end of
\* the interval, and whose second walk evaluated a number at the open lower
\* end and left it out
C3_Witness ==
    /\ pc = "done"
    /\ bnds.upper.closed /\ bnds.upper.value.k = "num"
    /\ bnds.lower.value.k = "num" /\ ~bnds.lower.closed
    /\ \E n \in 1..Len(distr.pdf) : distr.pdf[n].x = bnds.upper.value.n
    /\ ~IsNaN(PdfAt(pdfShape, bnds.lower.value.n))
    /\ gInc > 0 /\ start >= bnds.lower.value.n /\ start - i < bnds.lower.value.n
    /\ (start - bnds.lower.value.n) % gInc = 0

\* C4 (as claimed): in the returned cdf sample y is non-decreasing along
\* ascending x.
C4_CdfNonDecreasing ==
    pc = "done" => \A n \in 1..(Len(distr.cdf) - 1) : distr.cdf[n].y <= distr.cdf[n + 1].y

\* C5 (as claimed): each directional walk ends within the iteration ceiling:
\* the distance walked never exceeds the cap by more than one step.
C5_WalkBounded ==
    pc \in {"walkNeg", "walkPos", "retNeg", "retPos"}
        => steps * Abs(gInc) <= WalkCap * Tick + Abs(gInc)

----------------------------------------------------------------------------
(* Series engine: helpers.js sum(f, a, b, tol, max) *)

\* f(idx): the listed values at the indices 0 .. Len(head)-1 and the value
\* `tail' at every other index, the infinite ones included
TermAt(f, idx) ==
    IF idx.k = "num" /\ idx.n >= 0 /\ idx.n < Len(f.head)
      THEN f.head[idx.n + 1]
      ELSE f.tail

\* Math.abs(a) === Infinity || Math.abs(b) === Infinity
InfiniteBounds(a, b) == a.k = "inf" \/ b.k = "inf"

\* if (typeof tol === 'undefined') { tol = 1E-12; }
EffTol(tol) == IF tol.k = "undef" THEN XNum(DefaultTol) ELSE tol

\* if (typeof max === 'undefined') { max = 1E6; }
EffMax(max) == IF max.k = "undef" THEN XNum(DefaultMax) ELSE max

\* while (i <= b)
SumLoopCond(idx, b) == XLe(idx, b)

\* if (!isNaN(v1) && !isNaN(v2)) { s1 += v1; ... } of inf_sum
InfSumAcc(s, v1, v2) == IF ~IsNaN(v1) /\ ~IsNaN(v2) THEN XAdd(s, v1) ELSE s

\* s2 = s1 + f(i + 1); if (Math.abs(s1 - s2) < tol) { break; }
InfSumBreak(s, v1, v2, tol) ==
    /\ ~IsNaN(v1) /\ ~IsNaN(v2)
    /\ XLt(XAbs(XSub(s, XAdd(s, v2))), tol)

\* if (i > max) { return undefined; }
InfSumGiveUp(idx, max) == XLt(max, idx)

\* fin_sum adding every term, NaN included
FinSumAccPoisoned(s, v1) == XAdd(s, v1)

\* if (!isNaN(v1)) { s1 += v1; } of fin_sum
FinSumAcc(s, v1) == IF ~IsNaN(v1) THEN XAdd(s, v1) ELSE s

TermValues == {XNaN, XNum(0), XNum(1), XNum(-2)}
TermFunctions == [head : [1..3 -> TermValues], tail : TermValues]
LowerBounds == {XNInf, XNum(-1), XNum(0), XNum(2), XPInf}
UpperBounds == {XNInf, XNum(0), XNum(2), XPInf}
Tolerances == {XUndef, XNum(2)}
MaxTerms == {XUndef, XNum(1)}

Returned(x) == [undef |-> FALSE, val |-> x]
ReturnedUndefined == [undef |-> TRUE, val |-> XNaN]

InitSum ==
    /\ sf \in TermFunctions
    /\ sa \in LowerBounds
    /\ sb \in UpperBounds
    /\ stol \in Tolerances
    /\ smax \in MaxTerms
    /\ si = sa /\ s1 = XNum(0)
    /\ spc = "call" /\ siters = 0 /\ sevals = <<>>
    /\ sres = ReturnedUndefined
    /\ DFIdle /\ DerIdle /\ ExtIdle

\* sum: the dispatch to inf_sum or fin_sum
SumCall ==
    /\ spc = "call"
    /\ spc' = (IF InfiniteBounds(sa, sb) THEN "inf" ELSE "fin")
    /\ UNCHANGED <<sf, sa, sb, stol, smax, si, s1, siters, sevals, sres>>
    /\ UNCHANGED <<dfVars, derVars, extVars>>

\* one iteration of inf_sum's while loop
InfSumIter ==
    /\ spc = "inf"
    /\ SumLoopCond(si, sb)
    /\ siters < MaxIter
    /\ LET next == XAdd(si, XNum(1))
           v1 == TermAt(sf, si)
           v2 == TermAt(sf, next)
           acc == InfSumAcc(s1, v1, v2)
           both == ~IsNaN(v1) /\ ~IsNaN(v2)
       IN  /\ s1' = acc
           /\ siters' = siters + 1
           /\ sevals' = sevals \o (IF both THEN <<si, next, next>> ELSE <<si, next>>)
           /\ IF InfSumBreak(acc, v1, v2, EffTol(stol))
                THEN /\ spc' = "done" /\ sres' = Returned(acc) /\ si' = si
                ELSE IF InfSumGiveUp(si, EffMax(smax))
                  THEN /\ spc' = "done" /\ sres' = ReturnedUndefined /\ si' = si
                  ELSE /\ spc' = "inf" /\ sres' = sres /\ si' = next
    /\ UNCHANGED <<sf, sa, sb, stol, smax>>
    /\ UNCHANGED <<dfVars, derVars, extVars>>

\* inf_sum's loop condition fails: return s1
InfSumExit ==
    /\ spc = "inf"
    /\ ~SumLoopCond(si, sb)
    /\ spc' = "done"
    /\ sres' = Returned(s1)
    /\ UNCHANGED <<sf, sa, sb, stol, smax, si, s1, siters, sevals>>
    /\ UNCHANGED <<dfVars, derVars, extVars>>

\* one iteration of fin_sum's while loop
FinSumIter ==
    /\ spc = "fin"
    /\ SumLoopCond(si, sb)
    /\ s1' = FinSumAcc(s1, TermAt(sf, si))
    /\ si' = XAdd(si, XNum(1))
    /\ siters' = siters + 1
    /\ sevals' = Append(sevals, si)
    /\ UNCHANGED <<sf, sa, sb, stol, smax, spc, sres>>
    /\ UNCHANGED <<dfVars, derVars, extVars>>

\* fin_sum's loop condition fails: return s1
FinSumExit ==
    /\ spc = "fin"
    /\ ~SumLoopCond(si, sb)
    /\ spc' = "done"
    /\ sres' = Returned(s1)
    /\ UNCHANGED <<sf, sa, sb, stol, smax, si, s1, siters, sevals>>
    /\ UNCHANGED <<dfVars, derVars, extVars>>

NextSum == SumCall \/ InfSumIter \/ InfSumExit \/ FinSumIter \/ FinSumExit

SpecSum == InitSum /\ [][NextSum]_vars

----------------------------------------------------------------------------
(* Series engine: properties *)

\* the sum of the terms of f that are numbers, over the integers lo .. hi
RECURSIVE SumOfNumbers(_, _, _)
SumOfNumbers(f, lo, hi) ==
    IF lo > hi THEN 0
    ELSE (IF IsNaN(TermAt(f, XNum(hi))) THEN 0 ELSE TermAt(f, XNum(hi)).n)
         + SumOfNumbers(f, lo, hi - 1)

NeverNaN(f) == ~IsNaN(f.tail) /\ \A n \in 1..Len(f.head) : ~IsNaN(f.head[n])

\* the indices at which the term one ahead is below tol in magnitude
ConvergedAt(f, k, tol) == XLt(XAbs(TermAt(f, XNum(k + 1))), tol)

\* C6 (as claimed): a call of sum with an infinite bound makes at most max
\* iterations of its loop.
C6_AtMostMaxIterations ==
    InfiniteBounds(sa, sb) => XLe(XNum(siters), EffMax(smax))

\* C8 (as claimed): for finite a, b = +Infinity and f never NaN, sum returns
\* f(a) + ... + f(k), k the first index >= a with |f(k+1)| < tol, and returns
\* undefined when no such index is found within max iterations.
C8_FirstConvergedIndex ==
    (spc = "done" /\ sa.k = "num" /\ sb = XPInf /\ NeverNaN(sf)) =>
        LET tol == EffTol(stol)
            last == sa.n + EffMax(smax).n - 1
            found == {k \in sa.n..last : ConvergedAt(sf, k, tol)}
        IN  IF found = {}
              THEN sres = ReturnedUndefined
              ELSE LET k == CHOOSE m \in found : \A o \in found : m <= o
                   IN  sres = Returned(XNum(SumOfNumbers(sf, sa.n, k)))

\* C9: with both bounds finite, sum evaluates f once at each index a, a+1, ...
\* <= b, in order and with no early exit, and returns the sum of exactly the
\* terms that are not NaN (0 for an empty range).
C9_FiniteSum ==
    (spc = "done" /\ ~InfiniteBounds(sa, sb)) =>
        /\ sres = Returned(XNum(SumOfNumbers(sf, sa.n, sb.n)))
        /\ sevals = [n \in 1..(IF sb.n < sa.n THEN 0 ELSE sb.n - sa.n + 1) |-> XNum(sa.n + n - 1)]

\* a finished finite sum over a range holding a NaN term followed by a
\* non-zero number
C9_Witness ==
    /\ spc = "done" /\ ~InfiniteBounds(sa, sb)
    /\ sa = XNum(0) /\ sb = XNum(2)
    /\ IsNaN(TermAt(sf, XNum(1)))
    /\ TermAt(sf, XNum(0)) = XNum(1) /\ TermAt(sf, XNum(2)) = XNum(-2)
    /\ sres = Returned(XNum(-1))

----------------------------------------------------------------------------
(* Numerical derivative: helpers.js derivative(f, o, x) *)

\* the loop condition letting one more index through
DerivLoopCondOneMore(idx) == idx <= DerivCap + 1

\* while (i <= 99999)
DerivLoopCond(idx) == idx <= DerivCap

\* d[i] = Math.abs(v[i] - v[i - 1])
DerivDiff(cur, prev) == XAbs(XSub(cur, prev))

\* the stopping test without its guards on NaN and Infinity
DerivStopUnguarded(cur, prev, dcur, dprev) == XLe(dprev, dcur)

\* !isNaN(v[i]) && !isNaN(v[i-1]) && Math.abs(v[i]) !== Infinity
\*   && Math.abs(v[i-1]) !== Infinity && d[i] >= d[i-1]
DerivStop(cur, prev, dcur, dprev) ==
    /\ ~IsNaN(cur) /\ ~IsNaN(prev)
    /\ cur.k # "inf" /\ prev.k # "inf"
    /\ XLe(dprev, dcur)

\* returning the current estimate v[i] instead of the previous one
DerivReturnCurrent(arr, idx) == arr[idx + 1]

\* return v[i - 1], on the array after v[i] was stored (arr[idx] is v[idx-1])
DerivReturn(arr, idx) == arr[idx]

\* the values a stencil evaluation f1(x, h) can produce
EstValues == {XNaN, XPInf, XNInf, XNum(0), XNum(1), XNum(3)}

InitDeriv ==
    /\ di = 0 /\ dv = <<>> /\ dd = <<>>
    /\ dpc = "loop" /\ devals = 0
    /\ dres = ReturnedUndefined
    /\ DFIdle /\ SumIdle /\ ExtIdle

\* one iteration of derivative's while loop; est is the value of f1(x, h)
DerivIter ==
    /\ dpc = "loop"
    /\ DerivLoopCond(di)
    /\ \E est \in EstValues :
         LET va == Append(dv, est)
             dcur == IF di # 0 THEN DerivDiff(est, dv[di]) ELSE XUndef
             da == Append(dd, dcur)
         IN  /\ dv' = va
             /\ dd' = da
             /\ devals' = devals + 1
             /\ IF di # 0 /\ DerivStop(est, dv[di], dcur, dd[di])
                  THEN /\ dpc' = "done"
                       /\ dres' = Returned(DerivReturn(va, di))
                       /\ di' = di
                  ELSE /\ dpc' = "loop"
                       /\ dres' = dres
                       /\ di' = di + 1
    /\ UNCHANGED <<dfVars, sumVars, extVars>>

\* the loop condition fails: the function ends without a return statement
DerivExit ==
    /\ dpc = "loop"
    /\ ~DerivLoopCond(di)
    /\ dpc' = "done"
    /\ dres' = ReturnedUndefined
    /\ UNCHANGED <<di, dv, dd, devals>>
    /\ UNCHANGED <<dfVars, sumVars, extVars>>

NextDeriv == DerivIter \/ DerivExit

SpecDeriv == InitDeriv /\ [][NextDeriv]_vars

----------------------------------------------------------------------------
(* Numerical derivative: properties *)

\* v[j], the estimate after the j-th halving of h
Est(j) == dv[j + 1]

\* |v[j] - v[j-1]| >= |v[j-1] - v[j-2]|, compared as JavaScript compares
DiffsStopShrinking(j) ==
    XLe(XAbs(XSub(Est(j - 1), Est(j - 2))), XAbs(XSub(Est(j), Est(j - 1))))

\* v[j] and v[j-1] are numbers other than NaN and +-Infinity
BothFinite(j) == Est(j).k = "num" /\ Est(j - 1).k = "num"

\* C7: derivative makes at most DerivCap + 1 stencil evaluations (loop index
\* 0 .. DerivCap, the cap standing for 99999), it is never stuck before it
\* has returned, and when the stopping test never succeeded it returns
\* undefined.
C7_DerivativeCapped ==
    /\ devals <= DerivCap + 1
    /\ devals = Len(dv)
    /\ dpc = "loop" => ENABLED NextDeriv
    /\ (dpc = "done"
          /\ \A j \in 2..(Len(dv) - 1) : ~(BothFinite(j) /\ DiffsStopShrinking(j)))
        => (dres = ReturnedUndefined /\ devals = DerivCap + 1)

\* derivative has used up the whole cap and returned undefined
C7_Witness == dpc = "done" /\ devals = DerivCap + 1 /\ dres = ReturnedUndefined

\* C10 (as claimed): derivative returns v[i-1] at the first step i at which
\* |v[i] - v[i-1]| >= |v[i-1] - v[i-2]|.
C10_ReturnsPreviousOriginal ==
    \A j \in 2..(Len(dv) - 1) :
        (DiffsStopShrinking(j) /\ \A m \in 2..(j - 1) : ~DiffsStopShrinking(m))
            => (dpc = "done" /\ Len(dv) = j + 1 /\ dres = Returned(Est(j - 1)))

\* C10 (amended): derivative returns v[i-1] at the first step i >= 2 at which
\* v[i] and v[i-1] are both finite numbers and
\* |v[i] - v[i-1]| >= |v[i-1] - v[i-2]|; it returns a number at no other step.
C10_ReturnsPrevious ==
    /\ \A j \in 2..(Len(dv) - 1) :
         (BothFinite(j) /\ DiffsStopShrinking(j)
            /\ \A m \in 2..(j - 1) : ~(BothFinite(m) /\ DiffsStopShrinking(m)))
           => (dpc = "done" /\ Len(dv) = j + 1 /\ dres = Returned(Est(j - 1)))
    /\ (dpc = "done" /\ dres # ReturnedUndefined)
           => \E j \in 2..(Len(dv) - 1) :
                 /\ Len(dv) = j + 1
                 /\ BothFinite(j) /\ DiffsStopShrinking(j)
                 /\ dres = Returned(Est(j - 1))

\* derivative has returned the previous estimate, which differs from the
\* current one, after an earlier step whose estimate was infinite although
\* the differences had stopped shrinking there
C10_Witness ==
    /\ dpc = "done" /\ dres # ReturnedUndefined
    /\ Len(dv) >= 4
    /\ dv[Len(dv)] # dv[Len(dv) - 1]
    /\ dres = Returned(dv[Len(dv) - 1])
    /\ \E m \in 2..(Len(dv) - 2) : DiffsStopShrinking(m) /\ ~BothFinite(m)

\* v[j] is NaN or +-Infinity
NonFinite(j) == Est(j).k # "num"

\* the steps whose estimate is NaN or +-Infinity
NonFiniteSteps == {j \in 0..(Len(dv) - 1) : NonFinite(j)}

\* C11 (as claimed): at the first step whose estimate is NaN or +-Infinity,
\* derivative aborts the refinement and returns the last good estimate
\* computed before it (stated for the runs in which there is one).
C11_AbortsAtNonFiniteOriginal ==
    NonFiniteSteps # {} =>
        LET j == CHOOSE m \in NonFiniteSteps : \A o \in NonFiniteSteps : m <= o
        IN  j >= 1 =>
              /\ dpc = "done"
              /\ Len(dv) <= j + 1
              /\ dres = Returned(Est(j - 1))

\* C11 (amended): a NaN or infinite estimate never stops the refinement and is
\* never returned: after a step whose current or previous estimate is NaN or
\* +-Infinity derivative is still refining (or has run out of its cap and
\* returned undefined), and every number it returns is a finite estimate
\* returned at a step whose current and previous estimates are both finite.
C11_NonFiniteNeverStops ==
    /\ (Len(dv) >= 1 /\ (NonFinite(Len(dv) - 1) \/ (Len(dv) >= 2 /\ NonFinite(Len(dv) - 2))))
         => \/ dpc = "loop"
            \/ (dpc = "done" /\ dres = ReturnedUndefined /\ devals = DerivCap + 1)
    /\ (dpc = "done" /\ dres # ReturnedUndefined)
         => (dres.val.k = "num" /\ BothFinite(Len(dv) - 1))

\* derivative went on past a NaN or infinite estimate, to which a finite one
\* had come before, and later returned a finite estimate
C11_Witness ==
    /\ dpc = "done" /\ dres # ReturnedUndefined /\ dres.val.k = "num"
    /\ \E m \in 1..(Len(dv) - 3) : NonFinite(m) /\ ~NonFinite(m - 1)

----------------------------------------------------------------------------
(* Exact arithmetic on JavaScript numbers that have a fractional part.      *)
(* A finite number is the fraction n/d in lowest terms with d > 0; NaN, the *)
(* infinities, undefined and false keep their own tags.                     *)

RECURSIVE GCD(_, _)
GCD(a, b) == IF b = 0 THEN a ELSE GCD(b, a % b)

RNum(n, d) ==
    LET g == GCD(Abs(n), Abs(d))
        s == IF d < 0 THEN -1 ELSE 1
    IN  [k |-> "num", n |-> s * (n \div g), d |-> s * (d \div g)]
RInt(n) == RNum(n, 1)
RNaN == [k |-> "nan", n |-> 0, d |-> 1]
RPInf == [k |-> "inf", n |-> 1, d |-> 1]
RNInf == [k |-> "inf", n |-> -1, d |-> 1]
RUndef == [k |-> "undef", n |-> 0, d |-> 1]
RFalse == [k |-> "false", n |-> 0, d |-> 1]

\* ToNumber, applied by every arithmetic operator to its operands:
\* undefined becomes NaN and false becomes 0
ToNumber(x) ==
    IF x.k = "undef" THEN RNaN
    ELSE IF x.k = "false" THEN RInt(0)
    ELSE x

Sign(n) == IF n < 0 THEN -1 ELSE 1

\* a number whose value the model does not compute: a value of the gamma
\* function, or the result of arithmetic on one
ROpaque == [k |-> "opaque", n |-> 0, d |-> 1]
Unknown(x) == x.k \in {"gamma", "opaque"}

\* x + y
RAdd(x, y) ==
    LET a == ToNumber(x)
        b == ToNumber(y)
    IN  IF Unknown(a) \/ Unknown(b) THEN ROpaque
        ELSE IF a.k = "nan" \/ b.k = "nan" THEN RNaN
        ELSE IF a.k = "inf" /\ b.k = "inf" THEN (IF a.n = b.n THEN a ELSE RNaN)
        ELSE IF a.k = "inf" THEN a
        ELSE IF b.k = "inf" THEN b
        ELSE LET g == GCD(a.d, b.d)
             IN  RNum(a.n * (b.d \div g) + b.n * (a.d \div g), (a.d \div g) * b.d)

\* -x
RNeg(x) ==
    LET a == ToNumber(x)
    IN  IF Unknown(a) THEN ROpaque
        ELSE IF a.k = "nan" THEN RNaN
        ELSE [a EXCEPT !.n = -a.n]

\* x - y
RSub(x, y) == RAdd(x, RNeg(y))

\* x * y
RMul(x, y) ==
    LET a == ToNumber(x)
        b == ToNumber(y)
    IN  IF Unknown(a) \/ Unknown(b) THEN ROpaque
        ELSE IF a.k = "nan" \/ b.k = "nan" THEN RNaN
        ELSE IF a.k = "inf" \/ b.k = "inf"
             THEN (IF a.n = 0 \/ b.n = 0 THEN RNaN
                   ELSE IF Sign(a.n) = Sign(b.n) THEN RPInf ELSE RNInf)
        ELSE LET g1 == GCD(Abs(a.n), b.d)
                 g2 == GCD(Abs(b.n), a.d)
             IN  RNum((a.n \div g1) * (b.n \div g2), (a.d \div g2) * (b.d \div g1))

\* x / y
RDiv(x, y) ==
    LET a == ToNumber(x)
        b == ToNumber(y)
    IN  IF Unknown(a) \/ Unknown(b) THEN ROpaque
        ELSE IF a.k = "nan" \/ b.k = "nan" THEN RNaN
        ELSE IF a.k = "inf" /\ b.k = "inf" THEN RNaN
        ELSE IF a.k = "inf" THEN (IF Sign(a.n) = Sign(b.n) THEN RPInf ELSE RNInf)
        ELSE IF b.k = "inf" THEN RInt(0)
        ELSE IF b.n = 0
             THEN (IF a.n = 0 THEN RNaN ELSE IF a.n > 0 THEN RPInf ELSE RNInf)
        ELSE RMul(a, RNum(b.d, b.n))

\* Math.pow(x, e) for a whole exponent e >= 0
RECURSIVE RPow(_, _)
RPow(x, e) == IF e = 0 THEN RInt(1) ELSE RMul(x, RPow(x, e - 1))

\* n is the square of a whole number
IsSquare(n) == n >= 0 /\ ISqrt(n) * ISqrt(n) = n

\* Math.pow(x, 1.5) has an exact value: x is not a positive finite number,
\* or it is the square of a fraction
Pow15Exact(x) ==
    LET a == ToNumber(x)
    IN  (a.k = "num" /\ a.n > 0) => (IsSquare(a.n) /\ IsSquare(a.d))

\* the power of the modulus, which is a number for negative x too
RPow15OfModulus(x) ==
    LET a == ToNumber(x)
    IN  IF a.k = "nan" THEN RNaN
        ELSE IF a.k = "inf" THEN RPInf
        ELSE RNum(ISqrt(Abs(a.n)) * ISqrt(Abs(a.n)) * ISqrt(Abs(a.n)),
                  ISqrt(a.d) * ISqrt(a.d) * ISqrt(a.d))

\* Math.pow(x, 1.5), for the arguments on which it is exact
RPow15(x) ==
    LET a == ToNumber(x)
    IN  IF a.k = "nan" THEN RNaN
        ELSE IF a.k = "inf" THEN RPInf
        ELSE IF a.n < 0 THEN RNaN
        ELSE RNum(ISqrt(a.n) * ISqrt(a.n) * ISqrt(a.n),
                  ISqrt(a.d) * ISqrt(a.d) * ISqrt(a.d))

\* Math.round(x): the nearest whole number, halves going up
MathRound(x) ==
    LET a == ToNumber(x)
    IN  IF a.k # "num" THEN a
        ELSE RInt((2 * a.n + a.d) \div (2 * a.d))

\* Math.h.round(n, d)
round(n, d) == RDiv(MathRound(RMul(n, RPow(RInt(10), d))), RPow(RInt(10), d))

----------------------------------------------------------------------------
(* Moment extractor: Math.p.moments.  The mgf f is represented by what      *)
(* Math.h.derivative(f, o, 0) returns for o = 1..4: a finite number or      *)
(* undefined.                                                               *)

\* Math.h.derivative(f, 2, 0) - Math.pow(Math.h.derivative(f, 1, 0), 2)
RawVariance(f) == RSub(f[2], RPow(f[1], 2))

momentsMean(f) == round(f[1], 3)

\* the difference taken the other way round
momentsVarianceSwapped(f) == round(RSub(RPow(f[1], 2), f[2]), 3)

momentsVariance(f) == round(RSub(f[2], RPow(f[1], 2)), 3)

\* the numerator without its 2 * m'^3 term
momentsSkewnessNoCube(f) ==
    round(RDiv(RSub(f[3], RMul(RMul(RInt(3), f[1]), f[2])),
               RPow15(RSub(f[2], RPow(f[1], 2)))), 3)

momentsSkewness(f) ==
    round(RDiv(RAdd(RSub(f[3], RMul(RMul(RInt(3), f[1]), f[2])),
                    RMul(RInt(2), RPow(f[1], 3))),
               RPow15(RSub(f[2], RPow(f[1], 2)))), 3)

\* the raw fourth moment over the squared variance
momentsKurtosisRawFourth(f) ==
    round(RSub(RDiv(f[4], RPow(RSub(f[2], RPow(f[1], 2)), 2)), RInt(3)), 3)

momentsKurtosis(f) ==
    round(RSub(RDiv(RSub(RAdd(RSub(f[4], RMul(RMul(RInt(4), f[1]), f[3])),
                              RMul(RMul(RInt(6), f[2]), RPow(f[1], 2))),
                         RMul(RInt(3), RPow(f[1], 4))),
                    RPow(RSub(f[2], RPow(f[1], 2)), 2)),
               RInt(3)), 3)

\* what derivative(f, o, 0) can return: undefined at the cap, else a number
DerivativeResults ==
    {RUndef, RInt(-1), RInt(0), RInt(1), RInt(2), RInt(5), RInt(10), RNum(1, 2)}

\* the derivatives at 0 of the Gaussian mgf exp(mu t + sigma^2 t^2 / 2)
GaussMgf(mu, sigma) ==
    LET s2 == RPow(sigma, 2)
    IN  << mu,
           RAdd(RPow(mu, 2), s2),
           RAdd(RPow(mu, 3), RMul(RMul(RInt(3), mu), s2)),
           RAdd(RAdd(RPow(mu, 4), RMul(RMul(RInt(6), RPow(mu, 2)), s2)),
                RMul(RInt(3), RPow(s2, 2))) >>

GaussParams ==
    {[mu |-> RInt(0), sigma |-> RInt(1)],
     [mu |-> RInt(1), sigma |-> RInt(1)],
     [mu |-> RInt(-2), sigma |-> RInt(3)],
     [mu |-> RInt(0), sigma |-> RNum(1, 2)],
     [mu |-> RNum(1, 3), sigma |-> RInt(1)],
     [mu |-> RNum(1, 3), sigma |-> RInt(50)],
     [mu |-> RNum(-5, 2), sigma |-> RNum(3, 2)],
     [mu |-> RInt(100), sigma |-> RInt(1)],
     [mu |-> RInt(100), sigma |-> RInt(50)]}

\* the Gaussian inputs, each with the parameters it was built from
GaussInputs == {[g |-> g, f |-> GaussMgf(g.mu, g.sigma)] : g \in GaussParams}

MgfInputs ==
    {f \in [1..4 -> DerivativeResults] : Pow15Exact(RawVariance(f))}
        \cup {gi.f : gi \in GaussInputs}

Called(x) == [called |-> TRUE, val |-> x]

InitMoments ==
    /\ mf \in MgfInputs
    /\ mmean = NotCalled /\ mvar = NotCalled
    /\ mskew = NotCalled /\ mkurt = NotCalled
    /\ DFIdle /\ SumIdle /\ DerIdle /\ CombIdle /\ RndIdle /\ LibIdle

MeanCall ==
    /\ ~mmean.called
    /\ mmean' = Called(momentsMean(mf))
    /\ UNCHANGED <<mf, mvar, mskew, mkurt>>
    /\ UNCHANGED <<dfVars, sumVars, derVars, combVars, rndVars, libVars>>

VarianceCall ==
    /\ ~mvar.called
    /\ mvar' = Called(momentsVariance(mf))
    /\ UNCHANGED <<mf, mmean, mskew, mkurt>>
    /\ UNCHANGED <<dfVars, sumVars, derVars, combVars, rndVars, libVars>>

SkewnessCall ==
    /\ ~mskew.called
    /\ mskew' = Called(momentsSkewness(mf))
    /\ UNCHANGED <<mf, mmean, mvar, mkurt>>
    /\ UNCHANGED <<dfVars, sumVars, derVars, combVars, rndVars, libVars>>

KurtosisCall ==
    /\ ~mkurt.called
    /\ mkurt' = Called(momentsKurtosis(mf))
    /\ UNCHANGED <<mf, mmean, mvar, mskew>>
    /\ UNCHANGED <<dfVars, sumVars, derVars, combVars, rndVars, libVars>>

NextMoments == MeanCall \/ VarianceCall \/ SkewnessCall \/ KurtosisCall

SpecMoments == InitMoments /\ [][NextMoments]_vars

----------------------------------------------------------------------------
(* Properties of the moment extractor *)

NonPositive(x) == x.k = "num" /\ x.n <= 0
Negative(x) == x.k = "num" /\ x.n < 0
NonFiniteNumber(x) == x.k \in {"nan", "inf"}

C13_VarianceNonNegativeOriginal ==
    (mvar.called /\ mvar.val.k = "num") => mvar.val.n >= 0

\* C13 (amended): moments.variance returns m2 - m1^2 rounded to three
\* decimals, with the sign of that difference: a number >= 0 when
\* m2 >= m1^2, the negative difference itself when m2 < m1^2 (whole
\* differences are not changed by the rounding), and NaN when either
\* derivative is undefined.
C13_VarianceSign ==
    mvar.called =>
        LET w == RawVariance(mf)
        IN  /\ w.k = "nan" => mvar.val = RNaN
            /\ w.k = "num" =>
                  /\ mvar.val.k = "num"
                  /\ w.n >= 0 => mvar.val.n >= 0
                  /\ w.n < 0 => mvar.val.n <= 0
                  /\ w.d = 1 => mvar.val = w

C13_Witness ==
    /\ mvar.called /\ Negative(mvar.val)
    /\ mf[1].k = "num" /\ mf[2].k = "num"

C15_KurtosisRawFourthOriginal ==
    mkurt.called =>
        mkurt.val = round(RSub(RDiv(mf[4], RPow(RawVariance(mf), 2)), RInt(3)), 3)

\* C15 (amended): kurtosis is the fourth CENTRAL moment over variance^2,
\* minus 3, rounded to three decimals:
\*   (m4 - m1 (4 m3 - m1 (6 m2 - 3 m1^2))) / variance^2 - 3;
\* it equals m4 / variance^2 - 3 when m1 = 0 and m3 is a number.
C15_KurtosisCentralFourth ==
    mkurt.called =>
        LET m1 == mf[1]
            inner == RSub(RMul(RInt(6), mf[2]), RMul(RInt(3), RMul(m1, m1)))
            mid == RSub(RMul(RInt(4), mf[3]), RMul(m1, inner))
            central == RSub(mf[4], RMul(m1, mid))
            w == RawVariance(mf)
        IN  /\ mkurt.val = round(RSub(RDiv(central, RMul(w, w)), RInt(3)), 3)
            /\ (m1 = RInt(0) /\ mf[3].k = "num") =>
                  mkurt.val = round(RSub(RDiv(mf[4], RMul(w, w)), RInt(3)), 3)

C15_Witness ==
    /\ mkurt.called /\ mkurt.val.k = "num"
    /\ mf[1].k = "num" /\ mf[1].n # 0
    /\ mkurt.val # round(RSub(RDiv(mf[4], RPow(RawVariance(mf), 2)), RInt(3)), 3)

----------------------------------------------------------------------------
(* factorial, choose and the callers of choose *)

\* Number.MAX_VALUE: a product above it is Infinity.  Products up to it are
\* taken as exact here.
FloatMax == 1000000

\* the double nearest to x, as far as overflow goes
Float(x) ==
    IF x.k = "num" /\ (Abs(x.n) \div x.d > FloatMax
                        \/ (Abs(x.n) \div x.d = FloatMax /\ Abs(x.n) % x.d > 0))
    THEN (IF x.n > 0 THEN RPInf ELSE RNInf)
    ELSE x

\* x * y in doubles
FloatMul(x, y) == Float(RMul(x, y))

\* Math.pow(x, e) in doubles for a whole exponent e >= 0
RECURSIVE FloatPow(_, _)
FloatPow(x, e) == IF e = 0 THEN RInt(1) ELSE FloatMul(x, FloatPow(x, e - 1))

\* Math.pow(x, e) in doubles for a whole exponent e of either sign
RPowZ(x, e) == IF e >= 0 THEN FloatPow(x, e) ELSE RDiv(RInt(1), FloatPow(x, -e))

\* Math.h.isInt(n); its limits +-2^53 lie outside the numbers drawn here
isInt(n) == n.k = "num" /\ n.d = 1

\* Math.h.gamma(n): the call is recorded, its value is not computed
gamma(n) == [k |-> "gamma", n |-> n.n, d |-> n.d]

\* the loop  for (i = n; i > 1; --i) { f *= i; }
RECURSIVE FactorialLoop(_, _)
FactorialLoop(j, f) ==
    IF j > 1 THEN FactorialLoop(j - 1, FloatMul(f, RInt(j))) ELSE f

\* every argument handed to gamma
factorialViaGamma(n) == gamma(RAdd(n, RInt(1)))

factorial(n) ==
    IF ~isInt(n) \/ n.n < 0
    THEN gamma(RAdd(n, RInt(1)))
    ELSE FactorialLoop(n.n, RInt(1))

choose(n, k) ==
    IF isInt(n) /\ isInt(k) /\ n.n > 0 /\ k.n >= 0
    THEN RDiv(factorial(n), FloatMul(factorial(RSub(n, k)), factorial(k)))
    ELSE RFalse

triangular(n) == choose(RAdd(n, RInt(1)), RInt(2))

\* Math.h.sgn(x)
sgn(x) ==
    IF x.k = "num" \/ x.k = "inf"
    THEN RInt(IF x.n < 0 THEN -1 ELSE IF x.n = 0 THEN 0 ELSE 1)
    ELSE RFalse

\* distribution.binomial.pdf(params)(k), with c the value of
\* Math.h.choose(params.n, k)
binomialPdfWith(c, n, p, k) ==
    RMul(RMul(c, RPowZ(p, k.n)), RPowZ(RSub(RInt(1), p), n.n - k.n))

binomialPdf(n, p, k) == binomialPdfWith(choose(n, k), n, p, k)

\* the term of index ix in the stencil f1 of derivative(f, o, x), with fv
\* the value f(x + (o / 2 - ix) * h) and c the value of self.choose(o, ix)
stencilTermWith(c, o, ix, fv) == RMul(RMul(RPowZ(RInt(-1), ix.n), c), fv)

\* a term without the factor Math.pow(-1, i)
stencilTermUnsigned(o, ix, fv) == RMul(choose(o, ix), fv)

stencilTerm(o, ix, fv) == stencilTermWith(choose(o, ix), o, ix, fv)

\* the term of index k in distribution.irwinhall.pdf(params)(x), with c the
\* value of Math.h.choose(params.n, k)
irwinHallTermWith(c, n, k, x) ==
    RMul(RMul(RMul(RPowZ(RInt(-1), k.n), c), RPowZ(RSub(x, k), n.n - 1)),
         sgn(RSub(x, k)))

irwinHallTerm(n, k, x) == irwinHallTermWith(choose(n, k), n, k, x)


\* the largest whole argument drawn
NMax == 11

CombArgs == {RInt(j) : j \in -1..NMax} \cup {RNum(1, 2), RNum(5, 2)}
Probabilities == {RInt(0), RNum(1, 2), RInt(1)}
FunctionValues == {RInt(1), RInt(-3)}
Abscissae == {RInt(0), RInt(2)}

CalledWith(x, a) == [called |-> TRUE, val |-> x, arg |-> a]

\* x <= y for finite numbers
RLe(x, y) == x.n * y.d <= y.n * x.d

InitComb ==
    /\ cn \in CombArgs /\ ck \in CombArgs
    /\ cfact = NotCalled /\ cchoose = NotCalled /\ ctri = NotCalled
    /\ cbin = NotCalled /\ csten = NotCalled /\ cirw = NotCalled
    /\ DFIdle /\ SumIdle /\ DerIdle /\ MomIdle /\ RndIdle /\ LibIdle

FactorialCall ==
    /\ ~cfact.called
    /\ cfact' = Called(factorial(cn))
    /\ UNCHANGED <<cn, ck, cchoose, ctri, cbin, csten, cirw>>
    /\ UNCHANGED <<dfVars, sumVars, derVars, momVars, rndVars, libVars>>

ChooseCall ==
    /\ ~cchoose.called
    /\ cchoose' = Called(choose(cn, ck))
    /\ UNCHANGED <<cn, ck, cfact, ctri, cbin, csten, cirw>>
    /\ UNCHANGED <<dfVars, sumVars, derVars, momVars, rndVars, libVars>>

TriangularCall ==
    /\ ~ctri.called
    /\ ctri' = Called(triangular(cn))
    /\ UNCHANGED <<cn, ck, cfact, cchoose, cbin, csten, cirw>>
    /\ UNCHANGED <<dfVars, sumVars, derVars, momVars, rndVars, libVars>>

\* binomial.pdf({n: cn, p: p})(ck) for a whole number of trials n >= 0 and
\* a whole k, as the sampler of a discrete distribution supplies it
BinomialPdfCall ==
    /\ ~cbin.called
    /\ isInt(cn) /\ cn.n >= 0 /\ isInt(ck)
    /\ \E p \in Probabilities : cbin' = CalledWith(binomialPdf(cn, p, ck), p)
    /\ UNCHANGED <<cn, ck, cfact, cchoose, ctri, csten, cirw>>
    /\ UNCHANGED <<dfVars, sumVars, derVars, momVars, rndVars, libVars>>

\* the term of index ck of derivative(f, cn, x): the sum runs over the
\* whole indices 0 <= ck <= cn
StencilTermCall ==
    /\ ~csten.called
    /\ isInt(ck) /\ ck.n >= 0 /\ RLe(ck, cn)
    /\ \E fv \in FunctionValues : csten' = CalledWith(stencilTerm(cn, ck, fv), fv)
    /\ UNCHANGED <<cn, ck, cfact, cchoose, ctri, cbin, cirw>>
    /\ UNCHANGED <<dfVars, sumVars, derVars, momVars, rndVars, libVars>>

\* the term of index ck of irwinhall.pdf({n: cn})(x): n is whole and >= 0,
\* the sum runs over the whole indices 0 <= ck <= cn
IrwinHallTermCall ==
    /\ ~cirw.called
    /\ isInt(cn) /\ cn.n >= 0
    /\ isInt(ck) /\ ck.n >= 0 /\ RLe(ck, cn)
    /\ \E x \in Abscissae : cirw' = CalledWith(irwinHallTerm(cn, ck, x), x)
    /\ UNCHANGED <<cn, ck, cfact, cchoose, ctri, cbin, csten>>
    /\ UNCHANGED <<dfVars, sumVars, derVars, momVars, rndVars, libVars>>

NextComb ==
    \/ FactorialCall \/ ChooseCall \/ TriangularCall
    \/ BinomialPdfCall \/ StencilTermCall \/ IrwinHallTermCall

SpecComb == InitComb /\ [][NextComb]_vars

----------------------------------------------------------------------------
(* Properties of factorial, choose and its callers *)

\* the binomial coefficient, by Pascal's rule
RECURSIVE Binomial(_, _)
Binomial(n, k) ==
    IF k = 0 \/ k = n THEN 1 ELSE Binomial(n - 1, k - 1) + Binomial(n - 1, k)

\* C18: for all whole n >= 1 and 0 <= k <= n, choose(n, k) is exactly the
\* binomial coefficient.
C18_ChooseExact ==
    (cchoose.called /\ isInt(cn) /\ isInt(ck) /\ cn.n >= 1 /\ 0 <= ck.n /\ ck.n <= cn.n)
        => cchoose.val = RInt(Binomial(cn.n, ck.n))

\* choose(n, k) is called outside its domain
OutsideDomain(n, k) == ~isInt(n) \/ ~isInt(k) \/ n.n <= 0 \/ k.n < 0

\* C19: outside its domain choose returns the failure sentinel, and no
\* caller gets from the sentinel the result it would get from the number 0
\* in its place.
C19_SentinelNeverZero ==
    OutsideDomain(cn, ck) =>
        /\ cchoose.called => cchoose.val = RFalse
        /\ cbin.called =>
              cbin.val # binomialPdfWith(RInt(0), cn, cbin.arg, ck)
        /\ csten.called =>
              csten.val # stencilTermWith(RInt(0), cn, ck, csten.arg)
        /\ cirw.called =>
              cirw.val # irwinHallTermWith(RInt(0), cn, ck, cirw.arg)

\* n * (n - 1) * ... * 1
RECURSIVE Product(_)
Product(n) == IF n <= 1 THEN 1 ELSE n * Product(n - 1)

\* n * (n - 1) * ... * 1, computed no further than the first product above
\* FloatMax
RECURSIVE ProductUpTo(_)
ProductUpTo(n) ==
    IF n <= 1 THEN 1
    ELSE LET q == ProductUpTo(n - 1)
         IN  IF q > FloatMax THEN q ELSE q * n

----------------------------------------------------------------------------
(* Pseudo random numbers: Math.h.random.                                    *)
(* A 32-bit word is the pair of its 16-bit halves hi and lo.  The flag big  *)
(* marks the one number of the state that is not a 32-bit word: the         *)
(* millisecond timestamp used as seed, of which lo and hi are the low 32    *)
(* bits.  Timestamps are those between 2^61 / 1664525 and 2^62 / 1664525    *)
(* (the years 2013 to 2057), for which the doubles near 1664525 * timestamp *)
(* are the multiples of 512.                                                *)

Half == 2 ^ 16
Word(h, l) == [hi |-> h, lo |-> l, big |-> FALSE]

RECURSIVE BitXor(_, _, _)
BitXor(a, b, bits) ==
    IF bits = 0 THEN 0
    ELSE (((a % 2) + (b % 2)) % 2) + 2 * BitXor(a \div 2, b \div 2, bits - 1)

RECURSIVE BitAnd(_, _, _)
BitAnd(a, b, bits) ==
    IF bits = 0 THEN 0
    ELSE ((a % 2) * (b % 2)) + 2 * BitAnd(a \div 2, b \div 2, bits - 1)

\* x ^ y
WXor(x, y) == Word(BitXor(x.hi, y.hi, 16), BitXor(x.lo, y.lo, 16))

\* x & y
WAnd(x, y) == Word(BitAnd(x.hi, y.hi, 16), BitAnd(x.lo, y.lo, 16))

\* x << s, for 0 < s < 32
WShl(x, s) ==
    IF s < 16
    THEN Word((x.hi % (2 ^ (16 - s))) * (2 ^ s) + x.lo \div (2 ^ (16 - s)),
              (x.lo % (2 ^ (16 - s))) * (2 ^ s))
    ELSE Word((x.lo % (2 ^ (32 - s))) * (2 ^ (s - 16)), 0)

\* x >>> s, for 0 < s < 32
WShr(x, s) ==
    IF s < 16
    THEN Word(x.hi \div (2 ^ s),
              x.lo \div (2 ^ s) + (x.hi % (2 ^ s)) * (2 ^ (16 - s)))
    ELSE Word(0, x.hi \div (2 ^ (s - 16)))

\* (x + y) >>> 0
WAdd(x, y) ==
    Word((x.hi + y.hi + (x.lo + y.lo) \div Half) % Half, (x.lo + y.lo) % Half)

\* the multiplier 1664525 and the increment 1013904223 of seedArray
LcgA == Word(25, 26125)
LcgC == Word(15470, 62303)

\* the low 32 bits of a * x, for a multiplier a below 2^21
WMulLow(a, x) ==
    Word((a.hi * x.lo + a.lo * x.hi + (a.lo * x.lo) \div Half) % Half,
         (a.lo * x.lo) % Half)

\* the low 32 bits of the double nearest to a number of (low) bits x, where
\* the doubles are the multiples of 512: nearest, ties to the even multiple
Round512(x) ==
    LET low == x.lo % 512
        down == Word(x.hi, x.lo - low)
        odd == (x.lo \div 512) % 2 = 1
    IN  IF low > 256 \/ (low = 256 /\ odd) THEN WAdd(down, Word(0, 512)) ELSE down

\* ((1664525 * x) + 1013904223) >>> 0, in doubles
LcgStep(x) ==
    IF x.big
    THEN Round512(WAdd(Round512(WMulLow(LcgA, x)), LcgC))
    ELSE WAdd(WMulLow(LcgA, x), LcgC)

\* the parameters of WELL19937
R == 624
M1 == 70
M2 == 179
M3 == 449

\* n more iterations of the loop of seedArray, while i < r
RECURSIVE SeedSteps(_, _, _)
SeedSteps(w, len, n) ==
    IF n = 0 \/ Len(w) >= R THEN w
    ELSE SeedSteps(Append(w, LcgStep(w[Len(w) + 1 - len])), len, n - 1)

\* the loop of seedArray: v[i] for i = array.length .. r - 1, evaluated in
\* runs of 32 iterations
RECURSIVE SeedFill(_, _)
SeedFill(w, len) ==
    IF Len(w) >= R THEN w ELSE SeedFill(SeedSteps(w, len, 32), len)

\* seedArray(array): the state it leaves (w[j + 1] is v[j]); index is still
\* the 0 it was declared with
seedArray(array) ==
    [v |-> SeedFill(SubSeq(array, 1, IF Len(array) < R THEN Len(array) ELSE R),
                    Len(array)),
     index |-> 0]

\* seed(value)
seed(value) == seedArray(<<value>>)

\* the masks of the inner random()
MaskTop == Word(32768, 0)
MaskLow == Word(32767, 65535)
TemperB == Word(58478, 5888)
TemperC == Word(39814, 32768)

\* the inner function random(): the state it leaves and the word z4 of
\* which it returns (z4 >>> 0) / 0x100000000
Draw(st) ==
    LET at(j) == st.v[j + 1]
        indexRm1 == (st.index + R - 1) % R
        indexRm2 == (st.index + R - 2) % R
        v0 == at(st.index)
        vM1 == at((st.index + M1) % R)
        vM2 == at((st.index + M2) % R)
        vM3 == at((st.index + M3) % R)
        z0 == WXor(WAnd(MaskTop, at(indexRm1)), WAnd(MaskLow, at(indexRm2)))
        z1 == WXor(WXor(v0, WShl(v0, 25)), WXor(vM1, WShr(vM1, 27)))
        z2 == WXor(WShr(vM2, 9), WXor(vM3, WShr(vM3, 1)))
        z3 == WXor(z1, z2)
        z4 == WXor(WXor(WXor(z0, WXor(z1, WShl(z1, 9))),
                        WXor(z2, WShl(z2, 21))),
                   WXor(z3, WShr(z3, 21)))
        t1 == WXor(z4, WAnd(WShl(z4, 7), TemperB))
        t2 == WXor(t1, WAnd(WShl(t1, 15), TemperC))
    IN  [st |-> [v |-> [st.v EXCEPT ![st.index + 1] = z3,
                                    ![indexRm1 + 1] = z4,
                                    ![indexRm2 + 1] = WAnd(at(indexRm2), MaskTop)],
                 index |-> indexRm1],
         out |-> t2]

\* Math.h.random() called when +new Date() is date
random(date) == Draw(seed(date)).out

\* the number of milliseconds that pass, and of calls made
ClockSpan == 3
MaxCalls == 3

ClockStarts ==
    {[hi |-> 40000, lo |-> 12345, big |-> TRUE],
     [hi |-> 123, lo |-> 65534, big |-> TRUE],
     [hi |-> 65535, lo |-> 65533, big |-> TRUE]}

InitRandom ==
    /\ clock \in ClockStarts
    /\ rticks = 0 /\ rcalls = <<>>
    /\ DFIdle /\ SumIdle /\ DerIdle /\ MomIdle /\ CombIdle /\ LibIdle

\* a millisecond passes
ClockTick ==
    /\ rticks < ClockSpan
    /\ clock' = [WAdd(clock, Word(0, 1)) EXCEPT !.big = TRUE]
    /\ rticks' = rticks + 1
    /\ UNCHANGED rcalls
    /\ UNCHANGED <<dfVars, sumVars, derVars, momVars, combVars, libVars>>

\* one call of Math.h.random()
RandomCall ==
    /\ Len(rcalls) < MaxCalls
    /\ rcalls' = Append(rcalls, [seed |-> clock, out |-> random(clock)])
    /\ UNCHANGED <<clock, rticks>>
    /\ UNCHANGED <<dfVars, sumVars, derVars, momVars, combVars, libVars>>

NextRandom == ClockTick \/ RandomCall

SpecRandom == InitRandom /\ [][NextRandom]_vars

----------------------------------------------------------------------------
(* Properties of the pseudo random numbers *)

\* the k-th number drawn from the state st
RECURSIVE KthOutput(_, _)
KthOutput(st, k) ==
    IF k <= 1 THEN Draw(st).out ELSE KthOutput(Draw(st).st, k - 1)

\* C16: the numbers drawn depend on the seed alone and not on the time of
\* the call; the caller of Math.h.random() supplies no seed, so any two
\* calls are seeded alike by their caller and return the same number
\* whenever they are made.
C16_IndependentOfTime ==
    \A a, b \in 1..Len(rcalls) : rcalls[a].out = rcalls[b].out

\* C17: the k-th call of Math.h.random() returns the k-th number of the one
\* sequence seeded at the first call.
C17_KthOfOneSequence ==
    \A k \in 1..Len(rcalls) :
        rcalls[k].out = KthOutput(seed(rcalls[1].seed), k)

----------------------------------------------------------------------------
(* Density sampler: how a walk of generatePDF stops *)

Walking == pc \in {"walkNeg", "walkPos"}
WalkReturned == pc \in {"retNeg", "retPos"}

\* the x of the walk's evaluation number j + 1, and the value found there
EvaluatedX(j) == start - j * gInc
EvaluatedValue(j) == PdfAt(pdfShape, EvaluatedX(j))

\* the iterations of the current walk that ran to their end (to i += inc)
CompletedSteps == IF gInc = 0 THEN 0 ELSE i \div gInc

\* the walk has left its loop by the break statement, at x = start - i
StoppedByBreak == WalkReturned /\ WalkLoopCond(start, i, moments.variance)

\* C26 (as claimed): a walk stops at the first step whose x is outside the
\* declared bounds: no pdf evaluation is made at a later step of that walk.
C26_StopsOutsideBoundsOriginal ==
    (Walking \/ WalkReturned) =>
        \A j \in 0..(steps - 2) : inBounds(XNum(EvaluatedX(j)), bnds)

\* C26 (amended): an x outside the declared bounds never stops a walk.  The
\* walk leaves its loop only by the loop condition or by the break test,
\* which looks at the count of bad values, at i / inc and at the value; the
\* bounds only decide whether the point is pushed: the walk's array holds
\* exactly the evaluated points that are inside the bounds and not NaN.
C26_BoundsOnlyFilter ==
    /\ WalkReturned =>
          \/ ~WalkLoopCond(start, i, moments.variance)
          \/ WalkBreak(v, i, gInc, EvaluatedValue(steps - 1))
    /\ (Walking \/ WalkReturned) =>
          /\ Len(pdf) = Cardinality({j \in 0..(CompletedSteps - 1) :
                            /\ inBounds(XNum(EvaluatedX(j)), bnds)
                            /\ ~IsNaN(EvaluatedValue(j))})
          /\ \A n \in 1..Len(pdf) : inBounds(XNum(pdf[n].x), bnds)

\* a walk that started outside the bounds, went on, and pushed a point
\* evaluated later
C26_Witness ==
    /\ Walking /\ steps >= 2
    /\ ~inBounds(XNum(EvaluatedX(0)), bnds)
    /\ ~BadValue(EvaluatedValue(0))
    /\ \E n \in 1..Len(pdf) : \E j \in 1..(steps - 1) : pdf[n].x = EvaluatedX(j)

\* C27 (as claimed): a walk stops at the first step at which the pdf value
\* is NaN.
C27_StopsAtFirstNaNOriginal ==
    (Walking \/ WalkReturned) =>
        \A j \in 0..(steps - 2) : ~IsNaN(EvaluatedValue(j))

\* C27 (amended): a NaN value does not stop a walk, it is counted: v is the
\* number of values so far that were NaN or <= 0, the walk goes on while
\* v <= 10, and a walk that stops on a NaN value has counted more than 10
\* bad values (or has i / inc = 0 / 0).  A NaN value is never pushed.
C27_NaNIsCounted ==
    (Walking \/ WalkReturned) =>
        /\ v = Cardinality({j \in 0..(steps - 1) : BadValue(EvaluatedValue(j))})
        /\ Walking => v <= BadLimit
        /\ (StoppedByBreak /\ IsNaN(EvaluatedValue(steps - 1)))
              => (v > BadLimit \/ IsNaNQuot(i, gInc))
        /\ Len(pdf) <= Cardinality({j \in 0..(steps - 1) : ~IsNaN(EvaluatedValue(j))})

\* a walk that met NaN at its first step and stopped at its eleventh
C27_Witness ==
    /\ StoppedByBreak
    /\ IsNaN(EvaluatedValue(0))
    /\ steps = BadLimit + 1 /\ v = BadLimit + 1
    /\ IsNaN(EvaluatedValue(steps - 1))

\* the walk stopped because of a value in [0, 1E-5] and for no other reason
StoppedByNegligible ==
    /\ StoppedByBreak
    /\ v <= BadLimit /\ ~IsNaNQuot(i, gInc)
    /\ LET value == EvaluatedValue(steps - 1)
       IN  ~IsNaN(value) /\ XLe(XNum(0), value) /\ XLe(value, XNum(Epsilon))

\* C28: a walk stops because of a density <= 1E-5 only after a density
\* above 1E-5 has been seen earlier in that walk.
C28_NegligibleAfterPositive ==
    StoppedByNegligible =>
        \E j \in 0..(steps - 2) : XLt(XNum(Epsilon), EvaluatedValue(j))

\* C29: with variance exactly 0 and a continuous distribution, buildDF
\* terminates: each walk makes one pdf evaluation and stops, and the pdf and
\* cdf samples returned are empty.
C29_ZeroVarianceTerminates ==
    (~discrete /\ moments.variance = XNum(0)) =>
        /\ steps <= 1
        /\ Walking => steps = 0
        /\ WalkReturned => steps = 1
        /\ pdf = <<>> /\ pdfNeg = <<>>
        /\ pc # "done" => ENABLED NextDF
        /\ pc = "done" => (distr.pdf = <<>> /\ distr.cdf = <<>>)

C29_Witness ==
    /\ ~discrete /\ moments.variance = XNum(0)
    /\ pc = "done" /\ steps = 1 /\ inc = 0
    /\ distr.pdf = <<>> /\ distr.cdf = <<>>

----------------------------------------------------------------------------
(* Series engine: the terms an infinite sum adds *)

\* C25: in a sum with an infinite bound a NaN term is the only thing
\* skipped: every term f(i) that is not NaN, from a up to the stopping index,
\* is added exactly once, whatever f(i + 1) is.
C25_OnlyNaNSkipped ==
    (InfiniteBounds(sa, sb) /\ sa.k = "num") =>
        /\ spc = "inf" => s1 = XNum(SumOfNumbers(sf, sa.n, si.n - 1))
        /\ (spc = "done" /\ ~sres.undef /\ SumLoopCond(si, sb))
              => sres.val = XNum(SumOfNumbers(sf, sa.n, si.n))

----------------------------------------------------------------------------
(* Error function: helpers.js erf(x).  The argument is a fraction n/d; the *)
(* value is computed in fixed point, in units of 1E-9, from t and          *)
(* Math.exp(-x * x) taken to three decimals.                               *)

Nano == 10 ^ 9
Milli == 10 ^ 3

\* the array c of erf, in units of 1E-9
ErfC == <<254829592, -284496736, 1421413741, -1453152027, 1061405429>>
\* the literal p = 0.3275911 of erf, in units of 1E-7
ErfP == 3275911

\* c * m / 1000 rounded down, for c in units of 1E-9 and m in thousandths
MulMilli(c, m) == (c \div Milli) * m + ((c % Milli) * m) \div Milli

\* the series 1 + z + z^2/2! + ... of Math.exp(z) in thousandths, z = zn/zd,
\* from the term number k on, up to the first term below one thousandth
RECURSIVE ExpSeries(_, _, _, _)
ExpSeries(term, k, zn, zd) ==
    IF term = 0 THEN 0
    ELSE term + ExpSeries((term * zn) \div (zd * k), k + 1, zn, zd)

\* Math.exp(-z) in thousandths, for z = zn/zd >= 0
ExpNegMilli(zn, zd) == (Milli * Milli) \div ExpSeries(Milli, 1, zn, zd)

\* t = 1.0 / (1.0 + p * x) in thousandths, for x = xn/xd >= 0
ErfT(xn, xd) == (Milli * (10 ^ 5) * xd) \div (((10 ^ 7) * xd + ErfP * xn) \div 100)

\* Math.h.erf(x)
erf(x) ==
    LET s == IF x.n < 0 THEN -1 ELSE 1
        ax == Abs(x.n)
        t == ErfT(ax, x.d)
        horner == MulMilli(MulMilli(MulMilli(MulMilli(ErfC[5], t) + ErfC[4], t)
                                     + ErfC[3], t) + ErfC[2], t) + ErfC[1]
        y == Nano - MulMilli(MulMilli(horner, t), ExpNegMilli(ax * ax, x.d * x.d))
    IN  RNum(s * y, Nano)

\* largest |x| drawn, in tenths
ErfMax == 25
ErfArgs == {RNum(n, 10) : n \in -ErfMax..ErfMax}

InitErf ==
    /\ ex \in ErfArgs
    /\ eerf = NotCalled /\ eneg = NotCalled
    /\ CallsIdle /\ StencilIdle
    /\ DFIdle /\ SumIdle /\ DerIdle /\ MomIdle /\ CombIdle /\ RndIdle

\* Math.h.erf(x)
ErfCall ==
    /\ ~eerf.called
    /\ eerf' = Called(erf(ex))
    /\ UNCHANGED <<ex, eneg, callVars, stenVars>>
    /\ UNCHANGED <<dfVars, sumVars, derVars, momVars, combVars, rndVars>>

\* Math.h.erf(-x)
ErfNegCall ==
    /\ ~eneg.called
    /\ eneg' = Called(erf(RNeg(ex)))
    /\ UNCHANGED <<ex, eerf, callVars, stenVars>>
    /\ UNCHANGED <<dfVars, sumVars, derVars, momVars, combVars, rndVars>>

NextErf == ErfCall \/ ErfNegCall

SpecErf == InitErf /\ [][NextErf]_vars

\* C21: erf is antisymmetric, erf(-x) = -erf(x) for every x, x = 0 included,
\* so that erf(0) = 0.
C21_ErfAntisymmetric ==
    /\ (eerf.called /\ eneg.called) => eneg.val = RNeg(eerf.val)
    /\ (eerf.called /\ ex = RInt(0)) => eerf.val = RInt(0)

----------------------------------------------------------------------------
(* Incomplete gamma functions: helpers.js ligamma(a, x) and uigamma(a, z). *)
(* Both multiply Math.pow(x, a), gamma(a) and Math.exp(-x) with the value  *)
(* of sum(k -> Math.pow(x, k) / gamma(a + k + 1), 0, Infinity); they are   *)
(* given here as functions of these four values.  For whole numbers the    *)
(* test |s1 - s2| < 1E-12 of the sum is the test v2 = 0, as with tol = 1.  *)

\* x * y on JavaScript numbers
XMul(x, y) ==
    IF IsNaN(x) \/ IsNaN(y) THEN XNaN
    ELSE IF x.k = "num" /\ y.k = "num" THEN XNum(x.n * y.n)
    ELSE IF x.n = 0 \/ y.n = 0 THEN XNaN
    ELSE IF (x.n > 0) = (y.n > 0) THEN XPInf ELSE XNInf

\* the value of this.sum(...) as an operand: undefined converts to NaN
SumAsNumber(res) == IF res.undef THEN XNaN ELSE res.val

\* Math.h.ligamma(a, x), with xa = Math.pow(x, a), ga = this.gamma(a),
\* ex = Math.exp(-x) and series = this.sum(...)
ligamma(xa, ga, expx, series) == XMul(XMul(XMul(xa, ga), expx), series)

\* Math.h.uigamma(a, z), with za = Math.pow(z, a), ga = this.gamma(a),
\* ez = Math.exp(-z) and series = this.sum(...)
uigamma(za, ga, expz, series) ==
    XMul(ga, XSub(XNum(1), XMul(XMul(za, expz), series)))

\* values of Math.pow(x, a), gamma(a) and Math.exp(-x) for a > 0, x >= 0
PowValues == {XNum(0), XNum(1), XNum(2)}
GammaValues == {XNum(1), XNum(2)}
ExpValues == {XNum(0), XNum(1)}

\* a call sum(f, 0, Infinity) whose terms are, like x^k / gamma(a + k + 1),
\* never negative and in the end all 0 (the divisor has overflowed) or all
\* NaN (the dividend has overflowed too)
SeriesCallReturned ==
    /\ spc = "done"
    /\ sa = XNum(0) /\ sb = XPInf /\ stol = XUndef /\ smax = XUndef
    /\ sf.tail \in {XNum(0), XNaN}
    /\ \A n \in 1..Len(sf.head) : IsNaN(sf.head[n]) \/ XLe(XNum(0), sf.head[n])

\* C22: for every a > 0 and x >= 0, ligamma(a, x) + uigamma(a, x) = gamma(a);
\* the two functions evaluate the same series, with the same terms and the
\* same stopping index.
C22_IncompleteGammasAddUp ==
    SeriesCallReturned =>
        \A xa \in PowValues : \A ga \in GammaValues : \A expx \in ExpValues :
            LET series == SumAsNumber(sres)
            IN  XAdd(ligamma(xa, ga, expx, series), uigamma(xa, ga, expx, series)) = ga

----------------------------------------------------------------------------
(* Calls of the library's routines: the pdf(params)(x) and cdf(params)(x)  *)
(* of every distribution, Math.p.mean and Math.p.variance.  A call either  *)
(* returns a value or throws: a ReferenceError when it reads an identifier *)
(* that is declared nowhere, a TypeError when it calls a property of       *)
(* Math.h that does not exist.  The value of a pdf or of a closed-form cdf *)
(* is not computed, only whether it is a number or NaN.                    *)

\* the keys of Math.p.distribution
Distributions ==
    {"beta", "binomial", "cauchy", "chiSquared", "exponential",
    "fisherSnedecor", "gamma", "gaussian", "geometric", "gompertz",
    "gumbel", "hypSecant", "invGaussian", "irwinHall", "laplace",
    "logarithmic", "logistic", "pareto", "poisson", "rayleigh", "skellam",
    "studentsT", "uniform", "weibull", "wigner", "zeta"}

\* the properties of Math.h that helpers.js defines
HelperNames ==
    {"csc", "sec", "cot", "sinh", "cosh", "tanh", "csch", "sech", "coth",
    "random", "isInt", "inBounds", "round", "sgn", "factorial", "choose",
    "triangular", "erf", "harmonic", "polylogarithm", "zeta", "beta",
    "gamma", "ligamma", "uigamma", "digamma", "besselI", "sum", "s_sum",
    "product_sum", "derivative", "integral", "sq_size", "arr_dump",
    "parse_func"}

\* the properties of Math.h that a helper calls in turn
HelperCalls(h) ==
    IF h = "csch" THEN {"sinh"}
    ELSE IF h = "sech" THEN {"cosh"}
    ELSE IF h = "coth" THEN {"tanh"}
    ELSE IF h = "factorial" THEN {"gamma", "isInt"}
    ELSE IF h = "choose" THEN {"factorial", "isInt"}
    ELSE IF h = "triangular" THEN {"choose"}
    ELSE IF h = "harmonic" THEN {"sum"}
    ELSE IF h = "polylogarithm" THEN {"sum"}
    ELSE IF h = "zeta" THEN {"polylogarithm"}
    ELSE IF h = "beta" THEN {"gamma"}
    ELSE IF h = "gamma" THEN {"gamma"}
    ELSE IF h = "ligamma" THEN {"gamma", "sum"}
    ELSE IF h = "uigamma" THEN {"gamma", "sum"}
    ELSE IF h = "digamma" THEN {"derivative", "gamma"}
    ELSE IF h = "besselI" THEN {"factorial", "gamma", "sum"}
    ELSE IF h = "derivative" THEN {"choose", "sum"}
    ELSE IF h = "arr_dump" THEN {"sq_size"}
    ELSE {}

\* the ids of the parameters a distribution declares
ParamIds ==
    [beta |-> {"a", "b"}, binomial |-> {"p", "n"},
    cauchy |-> {"x0", "gamma"}, chiSquared |-> {"k"},
    exponential |-> {"lambda"}, fisherSnedecor |-> {"d1", "d2"},
    gamma |-> {"k", "theta"}, gaussian |-> {"mean", "std"},
    geometric |-> {"p"}, gompertz |-> {"n", "b"},
    gumbel |-> {"mu", "beta"}, hypSecant |-> {},
    invGaussian |-> {"shape", "mean"}, irwinHall |-> {"n"},
    laplace |-> {"mean", "scale"}, logarithmic |-> {"p"},
    logistic |-> {"mu", "s"}, pareto |-> {"xm", "a"},
    poisson |-> {"lambda"}, rayleigh |-> {"sigma"},
    skellam |-> {"mean1", "mean2"}, studentsT |-> {"v"},
    uniform |-> {"a", "b"}, weibull |-> {"lambda", "k"}, wigner |-> {"r"},
    zeta |-> {"s"}]

\* the properties of params that pdf(params)(x) reads
PdfReads ==
    [beta |-> {"a", "b"}, binomial |-> {"n", "p"},
    cauchy |-> {"gamma", "x0"}, chiSquared |-> {"k"},
    exponential |-> {"lambda"}, fisherSnedecor |-> {"d1", "d2"},
    gamma |-> {"k", "theta"}, gaussian |-> {"mean", "std"},
    geometric |-> {"p"}, gompertz |-> {"b", "n"},
    gumbel |-> {"beta", "mu"}, hypSecant |-> {},
    invGaussian |-> {"mean", "shape"}, irwinHall |-> {"n"},
    laplace |-> {"mean", "scale"}, logarithmic |-> {"p"},
    logistic |-> {"mu", "s"}, pareto |-> {"a", "xm"},
    poisson |-> {"lambda"}, rayleigh |-> {"sigma"},
    skellam |-> {"mean1", "mean2"}, studentsT |-> {"v"},
    uniform |-> {"a", "b"}, weibull |-> {"k", "lambda"}, wigner |-> {"r"},
    zeta |-> {"s"}]

\* the properties of Math.h that pdf(params)(x) calls
PdfHelpers ==
    [beta |-> {"beta"}, binomial |-> {"choose"}, cauchy |-> {},
    chiSquared |-> {"gamma"}, exponential |-> {},
    fisherSnedecor |-> {"gamma"}, gamma |-> {"gamma"}, gaussian |-> {},
    geometric |-> {}, gompertz |-> {}, gumbel |-> {},
    hypSecant |-> {"sech"}, invGaussian |-> {},
    irwinHall |-> {"choose", "factorial", "sgn", "sum"}, laplace |-> {},
    logarithmic |-> {}, logistic |-> {}, pareto |-> {},
    poisson |-> {"factorial"}, rayleigh |-> {}, skellam |-> {"besselI"},
    studentsT |-> {"gamma"}, uniform |-> {}, weibull |-> {}, wigner |-> {},
    zeta |-> {"zeta"}]

\* the properties of params that cdf(params)(x) reads itself
CdfReads ==
    [beta |-> {}, binomial |-> {}, cauchy |-> {"gamma", "x0"},
    chiSquared |-> {}, exponential |-> {}, fisherSnedecor |-> {},
    gamma |-> {}, gaussian |-> {}, geometric |-> {},
    gompertz |-> {"b", "n"}, gumbel |-> {}, hypSecant |-> {},
    invGaussian |-> {}, irwinHall |-> {}, laplace |-> {"mean", "scale"},
    logarithmic |-> {}, logistic |-> {"mu", "s"}, pareto |-> {},
    poisson |-> {}, rayleigh |-> {}, skellam |-> {},
    studentsT |-> {"mu", "s"}, uniform |-> {}, weibull |-> {"lambda"},
    wigner |-> {}, zeta |-> {}]

\* the distribution whose pdf(params) a cdf hands to Math.h.integral, if any
CdfIntegrand ==
    [beta |-> "beta", binomial |-> "binomial", cauchy |-> "none",
    chiSquared |-> "chiSquared", exponential |-> "exponential",
    fisherSnedecor |-> "fisherSnedecor", gamma |-> "gamma",
    gaussian |-> "gaussian", geometric |-> "geometric",
    gompertz |-> "none", gumbel |-> "rayleigh", hypSecant |-> "none",
    invGaussian |-> "invGaussian", irwinHall |-> "irwinHall",
    laplace |-> "none", logarithmic |-> "logarithmic", logistic |-> "none",
    pareto |-> "pareto", poisson |-> "poisson", rayleigh |-> "rayleigh",
    skellam |-> "skellam", studentsT |-> "none", uniform |-> "uniform",
    weibull |-> "none", wigner |-> "wigner", zeta |-> "zeta"]

\* the identifiers a cdf reads that no scope declares: distribution.weibull's
\* cdf reads k (for params.k) on its branch x >= 0
CdfUndeclared(d, x) == IF d = "weibull" /\ RLe(RInt(0), x) THEN {"k"} ELSE {}

\* every property of Math.h reached from the calls in hs, within depth calls
RECURSIVE Reached(_, _)
Reached(hs, depth) ==
    IF depth = 0 THEN hs
    ELSE Reached(hs \cup UNION {HelperCalls(h) : h \in hs}, depth - 1)

\* what a call does: it returns val, or it throws the named error
Value(val) == [called |-> TRUE, threw |-> "none", val |-> val]
Threw(err) == [called |-> TRUE, threw |-> err, val |-> RNaN]
NoOutcome == [called |-> FALSE, threw |-> "none", val |-> RNaN]

\* a called property that Math.h lacks is undefined, and calling it throws
MissingHelper(hs) == \E h \in Reached(hs, Cardinality(HelperNames)) : h \notin HelperNames

\* arithmetic on the properties read from params: a property that the params
\* of distribution own do not hold is undefined, and the result is NaN
FromParams(reads, own) == IF reads \subseteq ParamIds[own] THEN ROpaque ELSE RNaN

\* Math.p.distribution[d].pdf(params)(x), params being those of own
pdfCall(d, own, x) ==
    IF MissingHelper(PdfHelpers[d]) THEN Threw("TypeError")
    ELSE Value(FromParams(PdfReads[d], own))

\* Math.h.integral(f, a, b), from the three values of f it uses
integral(fa, fm, fb, a, b) ==
    RMul(RDiv(RSub(b, a), RInt(6)), RAdd(RAdd(fa, RMul(RInt(4), fm)), fb))

\* Math.p.distribution[d].cdf(params)(x)
cdfCall(d, x) ==
    IF CdfIntegrand[d] = "none"
    THEN (IF CdfUndeclared(d, x) # {} THEN Threw("ReferenceError")
          ELSE Value(FromParams(CdfReads[d], d)))
    ELSE IF MissingHelper({"integral"}) THEN Threw("TypeError")
    ELSE LET a == RInt(0)
             m == RDiv(RAdd(a, x), RInt(2))
             fa == pdfCall(CdfIntegrand[d], d, a)
             fm == pdfCall(CdfIntegrand[d], d, m)
             fb == pdfCall(CdfIntegrand[d], d, x)
         IN  IF fa.threw # "none" THEN fa
             ELSE IF fm.threw # "none" THEN fm
             ELSE IF fb.threw # "none" THEN fb
             ELSE Value(integral(fa.val, fm.val, fb.val, a, x))

\* s = 0; s += callback(array[i]) for i = 0, 1, ...
RECURSIVE SumInOrder(_)
SumInOrder(values) ==
    IF values = <<>> THEN RInt(0)
    ELSE RAdd(SumInOrder(SubSeq(values, 1, Len(values) - 1)), values[Len(values)])

\* Math.h.s_sum(array, callback), the callback being given as a function on
\* the elements of array
s_sum(array, callback) == SumInOrder([n \in 1..Len(array) |-> callback[array[n]]])

\* Math.p.mean(array): it calls Math.h.sSum
sampleMean(array) ==
    LET Elements == {array[n] : n \in 1..Len(array)}
    IN  IF MissingHelper({"sSum"}) THEN Threw("TypeError")
        ELSE Value(RMul(RDiv(RInt(1), RInt(Len(array))),
                        s_sum(array, [el \in Elements |-> el.y])))

\* Math.p.variance(array): it calls Math.p.mean, then Math.h.sSum
sampleVariance(array) ==
    LET Elements == {array[n] : n \in 1..Len(array)}
        mean == sampleMean(array)
    IN  IF mean.threw # "none" THEN mean
        ELSE IF MissingHelper({"sSum"}) THEN Threw("TypeError")
        ELSE Value(RMul(RDiv(RInt(1), RInt(Len(array) - 1)),
                        s_sum(array, [el \in Elements |->
                                         RPow(RSub(el.y, mean.val), 2)])))

\* arguments x drawn: the whole numbers -ArgSpan .. ArgSpan
ArgSpan == 1
\* samples drawn: up to SampleLen points with y in 0 .. SampleLen
SampleLen == 2
Arguments == {RInt(n) : n \in -ArgSpan..ArgSpan}
Points == {[x |-> RInt(0), y |-> RInt(n)] : n \in 0..SampleLen}
Samples == UNION {[1..l -> Points] : l \in 1..SampleLen}

InitCalls ==
    /\ \/ /\ qfn \in {"pdf", "cdf"}
          /\ qd \in Distributions
          /\ qx \in Arguments
          /\ qsample = <<>>
       \/ /\ qfn \in {"mean", "variance"}
          /\ qd = "none"
          /\ qx = NotCalled.val
          /\ qsample \in Samples
    /\ qout = NoOutcome /\ qint = "none"
    /\ ErfIdle /\ StencilIdle
    /\ DFIdle /\ SumIdle /\ DerIdle /\ MomIdle /\ CombIdle /\ RndIdle

\* Math.p.distribution[qd].pdf(params)(qx)
PdfCall ==
    /\ qfn = "pdf" /\ ~qout.called
    /\ qout' = pdfCall(qd, qd, qx)
    /\ UNCHANGED <<qd, qfn, qx, qsample, qint, erfVars, stenVars>>
    /\ UNCHANGED <<dfVars, sumVars, derVars, momVars, combVars, rndVars>>

\* Math.p.distribution[qd].cdf(params)(qx)
CdfCall ==
    /\ qfn = "cdf" /\ ~qout.called
    /\ qout' = cdfCall(qd, qx)
    /\ qint' = CdfIntegrand[qd]
    /\ UNCHANGED <<qd, qfn, qx, qsample, erfVars, stenVars>>
    /\ UNCHANGED <<dfVars, sumVars, derVars, momVars, combVars, rndVars>>

\* Math.p.mean(qsample)
SampleMeanCall ==
    /\ qfn = "mean" /\ ~qout.called
    /\ qout' = sampleMean(qsample)
    /\ UNCHANGED <<qd, qfn, qx, qsample, qint, erfVars, stenVars>>
    /\ UNCHANGED <<dfVars, sumVars, derVars, momVars, combVars, rndVars>>

\* Math.p.variance(qsample)
SampleVarianceCall ==
    /\ qfn = "variance" /\ ~qout.called
    /\ qout' = sampleVariance(qsample)
    /\ UNCHANGED <<qd, qfn, qx, qsample, qint, erfVars, stenVars>>
    /\ UNCHANGED <<dfVars, sumVars, derVars, momVars, combVars, rndVars>>

NextCalls == PdfCall \/ CdfCall \/ SampleMeanCall \/ SampleVarianceCall

SpecCalls == InitCalls /\ [][NextCalls]_vars

\* C23: no routine throws for a mathematical edge case: every distribution's
\* pdf(params)(x) and cdf(params)(x), and Math.p.mean and Math.p.variance on
\* a non-empty sample, return a value.
C23_NothingThrows == qout.called => qout.threw = "none"

\* C24: every distribution whose cdf is computed by numerical integration
\* integrates its own pdf, with the same params.
C24_CdfIntegratesOwnPdf ==
    (qfn = "cdf" /\ qout.called /\ qint # "none") =>
        /\ qint = qd
        /\ qout = Value(integral(pdfCall(qd, qd, RInt(0)).val,
                                 pdfCall(qd, qd, RDiv(qx, RInt(2))).val,
                                 pdfCall(qd, qd, qx).val, RInt(0), qx))

----------------------------------------------------------------------------
(* Finite-difference stencil: the function f1 of helpers.js derivative,    *)
(* applied to polynomials in exact arithmetic.                             *)

\* f(t) for the polynomial f = coef[1] + coef[2] t + coef[3] t^2 + ...
RECURSIVE PolyAt(_, _)
PolyAt(coef, t) ==
    IF coef = <<>> THEN RInt(0)
    ELSE RAdd(Head(coef), RMul(t, PolyAt(Tail(coef), t)))

\* x + (o / 2 - i) * h
stencilAbscissa(o, ix, x, h) ==
    RAdd(x, RMul(RSub(RDiv(RInt(o), RInt(2)), RInt(ix)), h))

\* self.sum(term, a, b) for finite a and b: fin_sum adds the terms of index
\* a, a + 1, ..., b that are not NaN
RECURSIVE finSum(_, _, _)
finSum(term, a, b) ==
    IF a > b THEN RInt(0)
    ELSE LET sofar == finSum(term, a, b - 1)
             v1 == term[b]
         IN  IF ToNumber(v1).k = "nan" THEN sofar ELSE RAdd(sofar, v1)

\* f1(x, h) of derivative(f, o, x), for the polynomial f
f1(coef, o, x, h) ==
    RDiv(finSum([ix \in 0..o |->
                    stencilTerm(RInt(o), RInt(ix),
                                PolyAt(coef, stencilAbscissa(o, ix, x, h)))],
                0, o),
         RPowZ(h, o))

\* the orders drawn: 1 .. OrderMax
OrderMax == 4
\* abscissae x and steps h drawn: halves up to HalvesMax / 2 in magnitude
HalvesMax == 2

Coefficients == {RInt(-1), RInt(0), RInt(1)}
Polynomials == UNION {[1..l -> Coefficients] : l \in 1..(OrderMax + 1)}
StencilAbscissae == {RNum(n, 2) : n \in 0..HalvesMax}
StencilSteps == {RNum(n, 2) : n \in -HalvesMax..HalvesMax} \ {RInt(0)}

InitStencil ==
    /\ tf \in Polynomials
    /\ torder \in 1..OrderMax
    /\ tx \in StencilAbscissae
    /\ th \in StencilSteps
    /\ tres = NotCalled
    /\ ErfIdle /\ CallsIdle
    /\ DFIdle /\ SumIdle /\ DerIdle /\ MomIdle /\ CombIdle /\ RndIdle

\* f1(x, h)
StencilCall ==
    /\ ~tres.called
    /\ tres' = Called(f1(tf, torder, tx, th))
    /\ UNCHANGED <<tf, torder, tx, th, erfVars, callVars>>
    /\ UNCHANGED <<dfVars, sumVars, derVars, momVars, combVars, rndVars>>

NextStencil == StencilCall

SpecStencil == InitStencil /\ [][NextStencil]_vars

\* f is the polynomial t^o
IsPower(coef, o) ==
    /\ Len(coef) = o + 1
    /\ \A n \in 1..Len(coef) : coef[n] = RInt(IF n = o + 1 THEN 1 ELSE 0)

====
